---- MODULE Spec2Model ----
(***************************************************************************)
(* Merge orchestrator of the git client: GitBase.updateAndMergePullRequest,*)
(* GitBase.mergePullRequest and GitBase.rebaseBranch, with the retry       *)
(* evaluators they are composed with.  The forge (getPullRequest,          *)
(* mergePullRequestInternal), the local git driver (simple-git), the       *)
(* caller's resolver and the caller's retry evaluator are the environment: *)
(* each of their replies is a nondeterministic choice.                     *)
(***************************************************************************)
EXTENDS Integers, Sequences, FiniteSets, TLC

\* ---------------------------------------------------------------- bounds
\* the count of rebases kept in the history saturates at this value
MaxCount == 2

Min(a, b) == IF a < b THEN a ELSE b

Sat(n) == Min(n + 1, MaxCount)

\* ------------------------------------------------------- time text parser
Digits == {"0", "1", "2", "3", "4", "5", "6", "7", "8", "9"}

Units == {"h", "m", "s"}

DigitValue(c) ==
  CASE c = "0" -> 0 [] c = "1" -> 1 [] c = "2" -> 2 [] c = "3" -> 3
    [] c = "4" -> 4 [] c = "5" -> 5 [] c = "6" -> 6 [] c = "7" -> 7
    [] c = "8" -> 8 [] c = "9" -> 9

\* timeInMilliseconds with a break after each case
timeInMillisecondsNoFallthrough(value, units) ==
  IF units \in {"h", "m"} THEN value * 60
  ELSE IF units = "s" THEN value * 1000
  ELSE value

timeInMilliseconds(value, units) ==
  LET h == IF units = "h" THEN value * 60 ELSE value
      m == IF units \in {"h", "m"} THEN h * 60 ELSE h
  IN  IF units \in {"h", "m", "s"} THEN m * 1000 ELSE m

minutesInMilliseconds(minutes) == timeInMilliseconds(minutes, "m")

\* Sum of value x unit over the matches of [0-9]+[hms] found left to right
\* from position i; acc is the number read in the current run of digits
\* and inRun says whether such a run is open.
RECURSIVE ScanTimeText(_, _, _, _)
ScanTimeText(text, i, acc, inRun) ==
  IF i > Len(text) THEN 0
  ELSE LET c == text[i]
       IN  IF c \in Digits
             THEN ScanTimeText(text, i + 1, acc * 10 + DigitValue(c), TRUE)
           ELSE IF inRun /\ c \in Units
             THEN timeInMilliseconds(acc, c) + ScanTimeText(text, i + 1, 0, FALSE)
           ELSE ScanTimeText(text, i + 1, 0, FALSE)

Undefined == <<"undefined">>

timeTextToMilliseconds(waitText) ==
  IF waitText = Undefined \/ waitText = <<>> THEN 0
  ELSE ScanTimeText(waitText, 1, 0, FALSE)

\* values of options.waitForBlocked the calls are made with
WaitTexts ==
  { Undefined,
    <<"x">>,
    <<"5", "m">>,
    <<"4", "2", "0", "s">> }

\* ------------------------------------------------------------------ errors
NoError == [kind |-> "none", status |-> 0, hasResponse |-> FALSE, text |-> {}, pullNumber |-> 0]

ResponseError(status, text) ==
  [kind |-> "ResponseError", status |-> status, hasResponse |-> TRUE, text |-> text, pullNumber |-> 0]

PullNumber == 7

MergeConflict(pullNumber) ==
  [kind |-> "MergeConflict", status |-> 0, hasResponse |-> FALSE, text |-> {}, pullNumber |-> pullNumber]

MergeBlockedForPullRequest ==
  [kind |-> "MergeBlockedForPullRequest", status |-> 0, hasResponse |-> FALSE, text |-> {}, pullNumber |-> 0]

ConflictErrors ==
  [kind |-> "ConflictErrors", status |-> 0, hasResponse |-> FALSE, text |-> {}, pullNumber |-> 0]

UnresolvedConflictsError ==
  [kind |-> "UnresolvedConflictsError", status |-> 0, hasResponse |-> FALSE, text |-> {}, pullNumber |-> 0]

\* an error raised by the local git driver (clone, checkout, rebase, push)
GitDriverError ==
  [kind |-> "GitDriverError", status |-> 0, hasResponse |-> FALSE, text |-> {}, pullNumber |-> 0]

\* a transport error of a forge request that carries no response
NetworkError ==
  [kind |-> "NetworkError", status |-> 0, hasResponse |-> FALSE, text |-> {}, pullNumber |-> 0]

\* a response text is modelled by the set of phrases it contains
BaseModified == "Base branch was modified"

NotMergeable == "Pull Request is not mergeable"

ConflictBaseHead == "merge conflict between base and head"

\* the errors mergePullRequestInternal is answered with
MergeErrors ==
  { ResponseError(409, {}),
    ResponseError(405, {BaseModified}),
    ResponseError(405, {NotMergeable}),
    ResponseError(405, {}),
    ResponseError(422, {ConflictBaseHead}),
    ResponseError(422, {}),
    ResponseError(500, {BaseModified}),
    MergeConflict(PullNumber),
    NetworkError }

isResponseError(error) == error.status # 0 /\ error.hasResponse

\* isMergeError without the test of the response text of a 405
isMergeErrorAny405(error) ==
  IF isResponseError(error) /\ error.status = 405 THEN TRUE
  ELSE IF isResponseError(error) /\ error.status = 422 /\ ConflictBaseHead \in error.text THEN TRUE
  ELSE IF isResponseError(error) /\ error.status = 409 THEN TRUE
  ELSE FALSE

isMergeError(error) ==
  IF isResponseError(error) /\ error.status = 405 /\ BaseModified \in error.text THEN TRUE
  ELSE IF isResponseError(error) /\ error.status = 405 /\ NotMergeable \in error.text THEN TRUE
  ELSE IF isResponseError(error) /\ error.status = 422 /\ ConflictBaseHead \in error.text THEN TRUE
  ELSE IF isResponseError(error) /\ error.status = 409 THEN TRUE
  ELSE FALSE

isMergeConflict(err) == err.pullNumber # 0

\* ------------------------------------------------------------ retry results
NoResult == [kind |-> "none", retry |-> FALSE, delay |-> 0]

\* delay 0 stands for an absent delay
RetryResult(retry, delay) == [kind |-> "result", retry |-> retry, delay |-> delay]

Threw == [kind |-> "threw", retry |-> FALSE, delay |-> 0]

isRetryResult(value) == value.kind = "result"

noRetry(error) == RetryResult(FALSE, 0)

\* samples of Math.random() * 5000
RandomDelays == {0, 4999}

\* what a caller-supplied retry evaluator can answer
CallerResults ==
  { RetryResult(TRUE, 2000), RetryResult(TRUE, 0), RetryResult(FALSE, 0), Threw }

\* FirstRetry with a default that retries
FirstRetryDefaultsToRetry(results) ==
  LET idx == { i \in 1..Len(results) : isRetryResult(results[i]) /\ results[i].retry }
  IN  IF idx = {} THEN RetryResult(TRUE, 0)
      ELSE results[CHOOSE i \in idx : \A j \in idx : i <= j]

\* first(results.filter(isRetryResult).filter(v => v.retry)).valueOr({retry: false})
FirstRetry(results) ==
  LET idx == { i \in 1..Len(results) : isRetryResult(results[i]) /\ results[i].retry }
  IN  IF idx = {} THEN RetryResult(FALSE, 0)
      ELSE results[CHOOSE i \in idx : \A j \in idx : i <= j]

\* the most handlers a composite is built from
MaxHandlers == 2

\* what the handler built by compositeRetryEvaluation(values) answers for an
\* error, given what each member does for it (NoResult: the member is
\* undefined): a single defined member is returned as it is, so the answer
\* is its answer; with several, v(error) is called on every entry of values
CompositeResult(values) ==
  LET filteredRetryValues == SelectSeq(values, LAMBDA v : v # NoResult)
  IN  IF Len(filteredRetryValues) = 1 THEN filteredRetryValues[1]
      ELSE IF Len(filteredRetryValues) = 0 THEN RetryResult(FALSE, 0)
      ELSE IF \E i \in 1..Len(values) : values[i] = NoResult THEN Threw
      ELSE FirstRetry(values)

\* the member lists a composite is built from
HandlerLists ==
  UNION { [1..n -> CallerResults \cup {NoResult}] : n \in 0..MaxHandlers }

\* The evaluator mergePullRequest runs in its catch block, by the way it
\* was built: "noRetry", "caller", "mergeConflictHandler" or "composite".
compositeRetryEvaluation(hasMergeConflictHandler, hasCaller) ==
  IF hasMergeConflictHandler /\ hasCaller THEN "composite"
  ELSE IF hasMergeConflictHandler THEN "mergeConflictHandler"
  ELSE IF hasCaller THEN "caller"
  ELSE "none"

\* ---------------------------------------------------------- pull requests
PullRequestStatus == {"active", "completed", "conflicts", "blocked"}

SourceBranch == "feature"

TargetBranch == "main"

PullRequest(status) ==
  [pullNumber |-> PullNumber, sourceBranch |-> SourceBranch, targetBranch |-> TargetBranch, status |-> status]

NoPullRequest ==
  [pullNumber |-> 0, sourceBranch |-> "", targetBranch |-> "", status |-> "notset"]

Messages == {"merged-a", "merged-b"}

\* ------------------------------------------------------------------- state
VARIABLES
  entry,            \* the operation the caller invoked
  callerHandler,    \* TRUE iff the caller passed a retryHandler
  resolver,         \* the resolver the caller supplied, "default" if none
  waitForBlocked,   \* options.waitForBlocked
  cloneInput,       \* the LocalGitConfig of the clone in progress
  pc,               \* position of mergePullRequest's loop
  pr,               \* the pull request last read from the forge
  err,              \* the error caught by the loop
  totalWaitTime,    \* cumulative blocked wait, in ms
  sleepFor,         \* the interval of the sleep in progress
  outcome,          \* settlement of the promise returned to the caller
  hPc,              \* position of mergeConflictHandler
  delay,            \* the delay mergeConflictHandler drew
  mcResult,         \* what mergeConflictHandler answered
  callerResult,     \* what the caller's retry evaluator answered
  rbPc,             \* position of rebaseBranch
  rbFrom,           \* who called rebaseBranch: "direct", "conflict", "handler"
  rbConfig,         \* the config rebaseBranch was called with
  rbResult,         \* "none", "true", "false" or "threw"
  rbErr,            \* the error rebaseBranch failed with
  remote,           \* how source and target stand in the remote repository
  dirExists,        \* the directory /tmp/repo/{source}/rebase-{suffix} exists
  clPc,             \* position of clone
  clResult,         \* "none", "git" or "threw"
  clErr,            \* the error clone failed with
  localConfig,      \* keys set with git.addConfig in the clone
  g,                \* history of the call (ghost)
  repoConfig,       \* getGitRepoType: the AuthGitRepoConfig under detection
  dPc,              \* getGitRepoType: position
  probes,           \* getGitRepoType: the probes issued, in order
  response,         \* getGitRepoType: the response to the last probe
  repoType,         \* getGitRepoType: settlement of its promise
  kernel,           \* what runs the forge call: GithubCommon.exec or superagent's retry
  retries,          \* retries left
  rateLimit,        \* exec: the rateLimit option
  execHandler,      \* exec: TRUE iff the caller passed a retryHandler
  kPc,              \* position of the call
  failure,          \* the last failure of the forge call
  retryResult,      \* what the retry handler answered for it
  timerDelay,       \* the delay of the timer in progress, in ms
  calls,            \* how many times the forge call was made
  reply,            \* settlement of the promise returned to the caller
  fn,               \* the function or adapter method called
  arg,              \* its argument, or the forge's answer it works on
  returned,         \* what it returned or raised
  adapter,          \* adapter call: the forge adapter the method is called on
  op,               \* adapter call: the method
  options,          \* adapter call: its options
  aPc,              \* adapter call: position
  adapterConfig,    \* adapter call: this.config of the adapter
  held,             \* adapter call: the value getConfig handed to the caller
  forge,            \* adapter call: the repository and merge request at the forge
  mr,               \* adapter call: the merge request as last polled
  polls,            \* adapter call: how many times the merge request was polled
  aResult,          \* adapter call: settlement of its promise
  loopPc,           \* rebase of a working copy: position
  loopResolver,     \* rebase of a working copy: the resolver's behaviour
  git,              \* rebase of a working copy: the working copy
  lastStatus,       \* rebase of a working copy: the status last read
  resolution,       \* rebase of a working copy: what the resolver answered
  tasks,            \* rebase of a working copy: the driver's queue of tasks
  log,              \* rebase of a working copy: the tasks the driver ran for this resolution
  rebaseResult,     \* rebase of a working copy: the reply to rebase --continue
  completion,       \* rebase of a working copy: how the try block ended
  loopResult,       \* rebase of a working copy: settlement of rebaseBranch
  lh                \* rebase of a working copy: history (ghost)

callVars == <<entry, callerHandler, resolver, waitForBlocked>>

orchVars == <<pc, pr, err, totalWaitTime, sleepFor, outcome, hPc, delay, mcResult, callerResult>>

rbVars == <<rbPc, rbFrom, rbConfig, rbResult, rbErr, remote, dirExists>>

clVars == <<cloneInput, clPc, clResult, clErr, localConfig>>

mergeVars == <<callVars, orchVars, rbVars, clVars, g>>

detVars == <<repoConfig, dPc, probes, response, repoType>>

reqVars ==
  <<kernel, retries, rateLimit, execHandler, kPc, failure, retryResult, timerDelay, calls, reply>>

fnVars == <<fn, arg, returned>>

adVars == <<adapter, op, options, aPc, adapterConfig, held, forge, mr, polls, aResult>>

loopVars ==
  <<loopPc, loopResolver, git, lastStatus, resolution, tasks, log, rebaseResult, completion,
    loopResult, lh>>

toolVars == <<detVars, reqVars, fnVars, adVars, loopVars>>

vars == <<mergeVars, toolVars>>

Entries == {"updateAndMergePullRequest", "mergePullRequest", "rebaseBranch", "clone"}

\* behaviours of a resolver: the default one answers {resolvedConflicts: []}
Resolvers == {"default", "resolvesAll", "resolvesSome", "reportsErrors"}

\* the source branch already contains the target, the rebase replays the
\* source commits cleanly, or it stops on conflicted files
Remotes == {"contains", "replays", "conflicts"}

Pending == [state |-> "pending", value |-> "", error |-> NoError]

Resolved(value) == [state |-> "resolved", value |-> value, error |-> NoError]

Rejected(error) == [state |-> "rejected", value |-> "", error |-> error]

NoConfig == [sourceBranch |-> "", targetBranch |-> "", resolver |-> "default"]

\* Object.keys(undefined) raises a TypeError
TypeError ==
  [kind |-> "TypeError", status |-> 0, hasResponse |-> FALSE, text |-> {}, pullNumber |-> 0]

\* a LocalGitConfig: userConfig present or not, config absent or the set of its keys
LocalGitConfig(userConfig, config) == [userConfig |-> userConfig, config |-> config]

Absent == {"absent"}

SSL_CA_INFO == "http.sslCAInfo"

CloneInputs ==
  { LocalGitConfig(u, c) : u \in BOOLEAN, c \in {Absent, {}, {SSL_CA_INFO}, {SSL_CA_INFO, "core.autocrlf"}} }

NoInput == LocalGitConfig(FALSE, Absent)

GhostInit ==
  [ mergeFailed |-> FALSE,      \* an attempt failed with a merge-related error
    pushedSinceFail |-> FALSE,  \* a rebase returned true since that failure
    callerAccepted |-> FALSE,   \* the caller's evaluator accepted an error since
    rebasesSinceAttempt |-> 0,  \* rebaseBranch calls since the last attempt
    rebased |-> FALSE,          \* rebaseBranch was called
    lastMessage |-> "",         \* message of the last successful forge merge
    errFrom |-> "none",         \* the step that raised err
    handlerPolled |-> FALSE,    \* mergeConflictHandler read the pull request
    driverFailed |-> FALSE ]    \* a git driver call of this rebase failed

waitInMilliseconds == timeTextToMilliseconds(waitForBlocked)

\* the evaluator mergePullRequest is run with
retryHandler ==
  IF entry = "updateAndMergePullRequest"
    THEN compositeRetryEvaluation(TRUE, callerHandler)
  ELSE IF callerHandler THEN "caller" ELSE "noRetry"

\* --------------------------------------------------------- forge detector
GitHost ==
  [github |-> "Github", gitlab |-> "Gitlab", ghe |-> "GHE", gogs |-> "Gogs",
   bitbucket |-> "Bitbucket", gitea |-> "Gitea", azure |-> "Azure DevOps"]

\* host strings: the three fixed ones, and two the detector has to probe
\* (the comparison with the fixed hosts is exact)
Hosts == {"github.com", "bitbucket.org", "dev.azure.com", "example.com", "GitHub.com"}

\* credentials.caCert: absent, an object holding the certificate, or the
\* name of a certificate file
CaCerts == {"none", "object", "file"}

\* config.repo as its path segments
Repos == {<<"repo">>, <<"project", "_git", "repo">>}

AuthGitRepoConfig(host, repo, caCert) ==
  [protocol |-> "https", host |-> host, owner |-> "org", repo |-> repo, project |-> <<>>,
   username |-> "user", caCert |-> caCert]

AuthGitRepoConfigs ==
  { AuthGitRepoConfig(h, r, c) : h \in Hosts, r \in Repos, c \in CaCerts }

NoRepoConfig == AuthGitRepoConfig("", <<>>, "none")

\* new RegExp('([^/]+)/_git/(.*)').exec(config.repo): project and repo
updateAzureRepoConfig(c) ==
  IF c.repo = <<>> THEN c
  ELSE IF \E i \in 1..(Len(c.repo) - 1) : c.repo[i + 1] = "_git" /\ i + 2 <= Len(c.repo)
    THEN LET i == CHOOSE k \in 1..(Len(c.repo) - 1) :
                    /\ c.repo[k + 1] = "_git"
                    /\ \A j \in 1..(k - 1) : c.repo[j + 1] # "_git"
         IN  [c EXCEPT !.project = <<c.repo[i]>>, !.repo = SubSeq(c.repo, i + 2, Len(c.repo))]
  ELSE [c EXCEPT !.project = c.repo, !.repo = <<>>]

\* the result builder: {config: updatedConfig || config, type}
RepoTypeResult(type, c) == [type |-> type, config |-> c]

\* a detector that asks for Gogs before Gitea
ProbesGogsBeforeGitea ==
  <<"api/v3", "api/v4/projects", "api/v1/users/{username}", "api/v1/settings/api">>

\* the paths probed, in the order of getGitRepoType, and what each decides
Probes == <<"api/v3", "api/v4/projects", "api/v1/settings/api", "api/v1/users/{username}">>

ProbeTypes == <<GitHost.ghe, GitHost.gitlab, GitHost.gitea, GitHost.gogs>>

\* what a GET can come to: a request error, a non-2xx status (superagent
\* rejects), or a 2xx response with or without the GHE header and a body
GetResponse(result, header, body) == [outcome |-> result, header |-> header, body |-> body]

Responses ==
  {GetResponse("error", FALSE, "undefined"), GetResponse("non2xx", FALSE, "undefined")}
    \cup { GetResponse("ok", h, b) : h \in BOOLEAN, b \in {"null", "empty", "nonEmpty"} }

NoResponse == <<>>

\* response.header[header] || response.header[header.toLowerCase()]
hasHeader(r) == r.outcome = "ok" /\ r.header

\* isDefinedAndNotNull(result) && Object.keys(result).length > 0
hasBody(r) == r.outcome = "ok" /\ r.body \notin {"undefined", "null"} /\ r.body = "nonEmpty"

\* new Error('Unable to identify Git host type: ' + config.url)
UnidentifiedHostError ==
  [kind |-> "Error", status |-> 0, hasResponse |-> FALSE,
   text |-> {"Unable to identify Git host type"}, pullNumber |-> 0]

\* new InvalidGitUrl(context)
InvalidGitUrl ==
  [kind |-> "InvalidGitUrl", status |-> 0, hasResponse |-> FALSE,
   text |-> {"Invalid git url"}, pullNumber |-> 0]

\* promises.readFile(certFile) rejects
ReadFileError ==
  [kind |-> "ReadFileError", status |-> 0, hasResponse |-> FALSE, text |-> {}, pullNumber |-> 0]

\* ------------------------------------------------------ forge call kernel
MaxRetries == 2

\* the default of exec's and retryWithDelay's retries, and the count the
\* Gitea requests pass to superagent's retry
DefaultRetries == 10

Kernels == {"exec", "superagent"}

\* statuses of a failed forge request
Statuses == {401, 403, 404, 405, 408, 413, 429, 500, 502, 503, 504, 521, 522, 524}

SecondaryRateLimit == "secondary rate limit"

\* response texts of a 403, by the phrases they contain
RateLimitTexts == {{}, {SecondaryRateLimit}, {"Secondary Rate Limit"}}

\* response headers of a 403, as <<name, value>> pairs: superagent hands the
\* names over in lower case, a hand-built response may hold any spelling
RetryAfterHeaders ==
  {{}, {<<"Retry-After", 1>>}, {<<"retry-after", 1>>}, {<<"Retry-After", 0>>}}

\* err.code of a request that got no response
ErrorCodes == {"ECONNRESET", "ECONNABORTED", "CERT_HAS_EXPIRED"}

Failure(error, code, headers) == [err |-> error, code |-> code, header |-> headers]

NoFailure == Failure(NoError, "", {})

Failures ==
  { Failure(ResponseError(st, {}), "", {}) : st \in Statuses }
    \cup { Failure(ResponseError(403, t), "", h) : t \in RateLimitTexts, h \in RetryAfterHeaders }
    \cup { Failure(NetworkError, c, {}) : c \in ErrorCodes }

\* samples of Math.random(), in thousandths
RandomUnits == {0, 999}

\* isSecondaryRateLimitError whatever the case of the phrase
isSecondaryRateLimitErrorIgnoreCase(error) ==
  /\ isResponseError(error)
  /\ error.status = 403
  /\ error.text \cap {SecondaryRateLimit, "Secondary Rate Limit"} # {}

\* isResponseError(err) && err.status === 403 &&
\*   /.*secondary rate limit.*/g.test(err.response.text)
isSecondaryRateLimitError(error) ==
  /\ isResponseError(error)
  /\ error.status = 403
  /\ SecondaryRateLimit \in error.text

\* err.response.header['Retry-After']: 0 when there is no such entry
HeaderValue(headers, name) ==
  IF \E h \in headers : h[1] = name
    THEN (CHOOSE h \in headers : h[1] = name)[2]
  ELSE 0

\* exec's own handler; rand is the sample of Math.random().  An absent or
\* zero Retry-After entry gives way to 30 + 20 * Math.random() seconds.
retryOnSecondaryRateLimit(f, rand) ==
  IF isSecondaryRateLimitError(f.err)
    THEN LET retryAfter == HeaderValue(f.header, "Retry-After")
         IN  RetryResult(TRUE, IF retryAfter # 0 THEN retryAfter * 1000
                               ELSE 30000 + 20 * rand)
  ELSE RetryResult(FALSE, 0)

\* the error codes defaultRetryCallback retries on
RetryErrorCodes ==
  {"ETIMEDOUT", "ECONNRESET", "EADDRINUSE", "ECONNREFUSED", "EPIPE", "ENOTFOUND",
   "ENETUNREACH", "EAI_AGAIN"}

\* the statuses defaultRetryCallback retries on
RetryStatuses == {405, 408, 413, 429, 500, 502, 503, 504, 521, 522, 524}

\* defaultRetryCallback(err, res); a timed-out request carries the code
\* ECONNABORTED and a timeout field, and no error of Node's superagent has
\* a crossDomain field
defaultRetryCallback(f) ==
  IF f.code \in RetryErrorCodes THEN TRUE
  ELSE IF isResponseError(f.err) /\ f.err.status \in RetryStatuses THEN TRUE
  ELSE IF f.code = "ECONNABORTED" THEN TRUE
  ELSE FALSE

\* no forge call is asked for
NoRequest ==
  /\ kernel = "none"
  /\ retries = 0
  /\ rateLimit = FALSE
  /\ execHandler = FALSE
  /\ kPc = "idle"
  /\ failure = NoFailure
  /\ retryResult = NoResult
  /\ timerDelay = 0
  /\ calls = 0
  /\ reply = Pending

\* ------------------------------------------------------------- URL parser
\* A URL is the sequence of its pieces: names and the separators "://",
\* "/", ":", "@", "#", with ".git" a piece of its own.

\* index of the first / last piece t of s, 0 when there is none
FirstIndex(s, t) ==
  IF \E i \in 1..Len(s) : s[i] = t
    THEN CHOOSE i \in 1..Len(s) : s[i] = t /\ \A j \in 1..(i - 1) : s[j] # t
  ELSE 0

LastIndex(s, t) ==
  IF \E i \in 1..Len(s) : s[i] = t
    THEN CHOOSE i \in 1..Len(s) : s[i] = t /\ \A j \in (i + 1)..Len(s) : s[j] # t
  ELSE 0

\* the pieces of s before / after position i
Before(s, i) == SubSeq(s, 1, i - 1)

After(s, i) == SubSeq(s, i + 1, Len(s))

\* the pieces of s up to the first t, all of s when there is none
UpTo(s, t) == IF FirstIndex(s, t) = 0 THEN s ELSE Before(s, FirstIndex(s, t))

\* what follows the first t of s, nothing when there is none
Past(s, t) == IF FirstIndex(s, t) = 0 THEN <<>> ELSE After(s, FirstIndex(s, t))

\* GIT_URL_PATTERNS[url.substring(0, 4)]
GitUrlPattern(url) ==
  IF url = <<>> THEN "none"
  ELSE IF url[1] \in {"https", "http"} THEN "http"
  ELSE IF url[1] = "git@" THEN "git@"
  ELSE "none"

\* the groups of (https{0,1})://([^/]*)/([^/]*)/{0,1}([^#]*)#{0,1}(.*)
HttpGroups(url) ==
  LET rest == SubSeq(url, 3, Len(url))
      afterHost == Past(rest, "/")
      afterOwner == Past(afterHost, "/")
  IN  IF Len(url) < 2 \/ url[2] # "://" \/ FirstIndex(rest, "/") = 0
        THEN <<>>
      ELSE << <<url[1]>>, UpTo(rest, "/"), UpTo(afterHost, "/"),
              UpTo(afterOwner, "#"), Past(afterOwner, "#") >>

\* the groups of (git@)(.*):(.*)/([^#]*)#{0,1}(.*): the host runs to the
\* last ":" that still has a "/" after it, the owner to the last "/"
GitGroups(url) ==
  LET rest == SubSeq(url, 2, Len(url))
      colons == { i \in 1..Len(rest) : rest[i] = ":" /\ FirstIndex(After(rest, i), "/") # 0 }
  IN  IF colons = {} THEN <<>>
      ELSE LET i == CHOOSE k \in colons : \A j \in colons : j <= k
               tail == After(rest, i)
               slash == LastIndex(tail, "/")
               afterOwner == After(tail, slash)
           IN  << <<"git@">>, Before(rest, i), Before(tail, slash),
                  UpTo(afterOwner, "#"), Past(afterOwner, "#") >>

\* parseRepoHost: host.split('@') and results[0].split(':')
parseRepoHost(host) ==
  IF FirstIndex(host, "@") = 0
    THEN [host |-> host, username |-> <<>>, password |-> <<>>]
  ELSE LET credentials == UpTo(host, "@")
       IN  [host |-> UpTo(Past(host, "@"), "@"),
            username |-> UpTo(credentials, ":"),
            password |-> UpTo(Past(credentials, ":"), ":")]

\* parseRepoName: repo.replace(/[.]git$/, '')
parseRepoName(repo) ==
  IF repo # <<>> /\ repo[Len(repo)] = ".git" THEN Before(repo, Len(repo)) ELSE repo

\* a buildGitUrl that appends .git to the repository
buildGitUrlWithGitSuffix(protocol, host, owner, repo) ==
  IF repo # <<>>
    THEN <<protocol, "://">> \o host \o <<"/">> \o owner \o <<"/">> \o repo \o <<".git">>
  ELSE <<protocol, "://">> \o host \o <<"/">> \o owner

buildGitUrl(protocol, host, owner, repo) ==
  IF repo # <<>>
    THEN <<protocol, "://">> \o host \o <<"/">> \o owner \o <<"/">> \o repo
  ELSE <<protocol, "://">> \o host \o <<"/">> \o owner

\* parseGitUrl(url): the GitRepoConfig, an absent entry being <<>>, or the
\* InvalidGitUrl it throws
parseGitUrl(url) ==
  LET pattern == GitUrlPattern(url)
      results == IF pattern = "http" THEN HttpGroups(url)
                 ELSE IF pattern = "git@" THEN GitGroups(url)
                 ELSE <<>>
  IN  IF results = <<>> THEN Rejected(InvalidGitUrl)
      ELSE LET protocol == IF results[1] = <<"git@">> THEN "https" ELSE results[1][1]
               h == parseRepoHost(results[2])
               owner == results[3]
               repo == parseRepoName(results[4])
           IN  Resolved([url |-> buildGitUrl(protocol, h.host, owner, repo),
                         protocol |-> protocol,
                         host |-> h.host,
                         owner |-> owner,
                         repo |-> repo,
                         branch |-> results[5],
                         username |-> h.username,
                         password |-> h.password])

\* URLs of the accepted forms, by their parts
HttpUrl(scheme, credentials, remainder, fragment) ==
  <<scheme, "://">> \o credentials \o <<"host", "/", "owner">>
    \o (IF remainder = <<>> THEN <<>> ELSE <<"/">> \o remainder)
    \o (IF fragment = <<>> THEN <<>> ELSE <<"#">> \o fragment)

SshUrl(remainder) == <<"git@", "host", ":", "owner", "/">> \o remainder

Remainders ==
  {<<"repo">>, <<"repo", ".git">>, <<"project", "/", "_git", "/", "repo">>}

AcceptedUrls ==
  { HttpUrl(sc, c, r, f) :
      sc \in {"https", "http"},
      c \in {<<>>, <<"user", "@">>, <<"user", ":", "pass", "@">>},
      r \in Remainders \cup {<<>>},
      f \in {<<>>, <<"branch">>, <<"branch", ":", "target">>} }
    \cup { SshUrl(r) : r \in Remainders }

\* URLs of neither form
OtherUrls ==
  {<<>>, <<"ssh", "://", "host", "/", "owner", "/", "repo">>, <<"https", "://", "host">>,
   <<"git@", "host">>}

\* ------------------------------------------------- functions and mappings
MaxLen == 3

\* the characters the sampled time texts are made of
TimeChars == {"1", "3", "0", "h", "m", "s", " ", "x"}

\* the texts of the unit tests and of the documentation
TimeTextExamples ==
  { Undefined,
    <<>>,
    <<"1", "h">>,
    <<"1", "0", "m">>,
    <<"3", "0", "s">>,
    <<"8", "h", "8", "m", "8", "s">>,
    <<"8", "h", " ", "8", "m", " ", "8", "s">>,
    <<"1", "h", " ", "3", "0", "m">>,
    <<"t", "e", "s", "t", " ", "v", "a", "l", "u", "e">> }

TimeTexts ==
  TimeTextExamples \cup UNION { [1..n -> TimeChars] : n \in 0..MaxLen }

\* the PullRequestStatus enum
Status ==
  [NotSet |-> "notset", Active |-> "active", Abandoned |-> "abandoned",
   Completed |-> "completed", Conflicts |-> "conflicts", Blocked |-> "blocked"]

\* res.data of GET /repos/{owner}/{repo}/pulls/{pull_number}
GithubPullRequests ==
  [ number : {PullNumber},
    state : {"open", "closed", "draft"},
    merged : BOOLEAN,
    mergeable_state : {"dirty", "blocked", "clean", "behind", "unknown", "unstable"},
    head : {SourceBranch},
    base : {TargetBranch} ]

\* a mapPullRequestStatus that takes every unclean open pull request for a conflict
mapPullRequestStatusUncleanConflicts(pullRequest) ==
  IF pullRequest.state = "open"
    THEN IF pullRequest.mergeable_state # "clean" THEN Status.Conflicts ELSE Status.Active
  ELSE IF pullRequest.state = "closed"
    THEN IF pullRequest.merged THEN Status.Completed ELSE Status.Abandoned
  ELSE Status.NotSet

\* mapPullRequestStatus of the GitHub adapter
mapPullRequestStatus(pullRequest) ==
  IF pullRequest.state = "open"
    THEN IF pullRequest.mergeable_state = "dirty" THEN Status.Conflicts
         ELSE IF pullRequest.mergeable_state = "blocked" THEN Status.Blocked
         ELSE Status.Active
  ELSE IF pullRequest.state = "closed"
    THEN IF pullRequest.merged THEN Status.Completed ELSE Status.Abandoned
  ELSE Status.NotSet

\* res.body of GET .../pullrequests/{pullNumber} of Bitbucket
BitbucketPullRequests ==
  [ id : {PullNumber},
    state : {"OPEN", "MERGED", "SUPERSEDED", "DECLINED"},
    source : {SourceBranch},
    destination : {TargetBranch} ]

\* no function is asked for
NoFunction ==
  /\ fn = "none"
  /\ arg = <<>>
  /\ returned = Pending

\* ---------------------------------------------------------- forge adapters
\* the most the merge request is polled while the forge is still checking it
MaxPolls == 3

Adapters == {"Github", "Gitea", "Gitlab", "Bitbucket", "AzureDevops"}

Operations == {"createRepo", "getConfig", "mergePullRequestInternal"}

\* CreateRepoOptions: autoInit is true, false or not given
CreateRepoOptions == [name : {"repo"}, autoInit : {"true", "false", "undefined"}]

NoOptions == [name |-> "", autoInit |-> "undefined"]

BadCredentials ==
  [kind |-> "BadCredentials", status |-> 0, hasResponse |-> FALSE, text |-> {}, pullNumber |-> 0]

\* new Error('Pull request cannot be merged: ' + status)
CannotBeMerged ==
  [kind |-> "Error", status |-> 0, hasResponse |-> FALSE, text |-> {"Pull request cannot be merged"},
   pullNumber |-> 0]

\* the RepoCoordinate an adapter is built on
TypedGitRepoConfig == [host |-> "host", owner |-> "owner", repo |-> "repo"]

NoHeld == [alias |-> FALSE, value |-> [host |-> "", owner |-> "", repo |-> ""]]

\* the new repository and the merge request, as the forge has them
NoRepository == [repository |-> FALSE, commits |-> 0, merges |-> 0]

\* let status = ''; let conflicts = false
NoMergeRequest == [mergeStatus |-> "", hasConflicts |-> FALSE]

MergeStatuses == {"unchecked", "checking", "can_be_merged", "cannot_be_merged"}

\* the value createRepo works with for autoInit: options.autoInit || true in
\* the GitHub, Gitea and Azure adapters, the parameter default autoInit = true
\* in the GitLab and Bitbucket adapters
autoInit(a, o) ==
  IF a \in {"Github", "Gitea", "AzureDevops"} THEN TRUE
  ELSE o.autoInit # "false"

\* the forge writes the initial commit itself when the create request asks
\* for it (auto_init, initialize_with_readme)
InitialisesNatively(a) == a \in {"Github", "Gitea", "Gitlab"}

\* GitBase.getConfig answers Object.assign({}, this.config); the Bitbucket
\* adapter overrides it and answers this.config
getConfig(a) ==
  IF a = "Bitbucket" THEN [alias |-> TRUE, value |-> adapterConfig]
  ELSE [alias |-> FALSE, value |-> adapterConfig]

\* no adapter method is called
NoAdapterCall ==
  /\ adapter = "none"
  /\ op = "none"
  /\ options = NoOptions
  /\ aPc = "idle"
  /\ adapterConfig = TypedGitRepoConfig
  /\ held = NoHeld
  /\ forge = NoRepository
  /\ mr = NoMergeRequest
  /\ polls = 0
  /\ aResult = Pending

\* ------------------------------------------- rebase of a working copy
\* the most source commits a rebase has left to replay when it stops
MaxCommits == 2

Files == {"a", "b"}

\* the order in which status lists files
FileOrder == <<"a", "b">>

ListOf(files) == SelectSeq(FileOrder, LAMBDA f : f \in files)

\* a call of the git driver, queued until the driver runs it
Task(cmd, file) == [cmd |-> cmd, file |-> file]

\* the working copy the clone returned, on the source branch
WorkingCopy ==
  [ rebasing |-> FALSE,      \* a rebase is stopped and can be continued
    todo |-> 0,              \* source commits still to replay after the stopped one
    not_added |-> {},
    deleted |-> {},
    conflicted |-> {},
    staged |-> {},
    ahead |-> 0,
    behind |-> 0,
    commits |-> <<>>,        \* the 'Resolves conflict with' commits, with the files in each
    pushed |-> FALSE ]

NoStatus ==
  [not_added |-> {}, deleted |-> {}, conflicted |-> {}, staged |-> {}, ahead |-> 0, behind |-> 0]

\* git.status()
StatusResult(w) ==
  [not_added |-> w.not_added, deleted |-> w.deleted, conflicted |-> w.conflicted,
   staged |-> w.staged, ahead |-> w.ahead, behind |-> w.behind]

\* the test that leaves the loop, without the conflicted files
isCleanButConflicted(s) ==
  s.not_added = {} /\ s.deleted = {} /\ s.staged = {}

\* status.not_added.length === 0 && status.deleted.length === 0 &&
\* status.conflicted.length === 0 && status.staged.length === 0
isClean(s) ==
  s.not_added = {} /\ s.deleted = {} /\ s.conflicted = {} /\ s.staged = {}

NoResolution == [resolvedConflicts |-> <<>>, conflictErrors |-> {}, awaiting |-> {}]

\* what a resolver of the given behaviour answers for the conflicted files
ResolverAnswers(behaviour, conflicted) ==
  CASE behaviour = "default" -> { [resolvedConflicts |-> <<>>, conflictErrors |-> {}] }
    [] behaviour = "resolvesAll" ->
         { [resolvedConflicts |-> ListOf(conflicted), conflictErrors |-> {}] }
    [] behaviour = "resolvesSome" ->
         { [resolvedConflicts |-> ListOf(r), conflictErrors |-> {}] :
             r \in (SUBSET conflicted) \ {conflicted} }
    [] behaviour = "reportsErrors" ->
         { [resolvedConflicts |-> ListOf(conflicted \ e), conflictErrors |-> e] :
             e \in (SUBSET conflicted) \ {{}} }

\* what a resolver can leave in the working tree next to the files it edits
Leaves == {"nothing", "untracked", "deleted"}

NoHistory == [resolverFailed |-> FALSE, continued |-> FALSE, resolved |-> {}]

\* the states the working copy can be in after the stopped commit is done
\* with: the rebase ends, or it stops on a later commit
Advance(w) ==
  { [w EXCEPT !.rebasing = FALSE, !.todo = 0, !.conflicted = {}, !.staged = {}] }
  \cup { [w EXCEPT !.todo = k, !.conflicted = c, !.staged = {}] :
           k \in 0..(w.todo - 1), c \in (SUBSET Files) \ {{}} }

\* no working copy is being rebased
NoRebaseLoop ==
  /\ loopPc = "idle"
  /\ loopResolver = "default"
  /\ git = WorkingCopy
  /\ lastStatus = NoStatus
  /\ resolution = NoResolution
  /\ tasks = <<>>
  /\ log = <<>>
  /\ rebaseResult = ""
  /\ completion = "none"
  /\ loopResult = Pending
  /\ lh = NoHistory

\* nothing of a merge, rebase or clone is in progress
Quiescent ==
  /\ pc = "start"
  /\ pr = NoPullRequest
  /\ err = NoError
  /\ totalWaitTime = 0
  /\ sleepFor = 0
  /\ outcome = Pending
  /\ hPc = "off"
  /\ delay = 0
  /\ mcResult = NoResult
  /\ callerResult = NoResult
  /\ rbPc = "idle"
  /\ rbFrom = "none"
  /\ rbConfig = NoConfig
  /\ rbResult = "none"
  /\ rbErr = NoError
  /\ remote = "contains"
  /\ dirExists = FALSE
  /\ clPc = "idle"
  /\ clResult = "none"
  /\ clErr = NoError
  /\ localConfig = {}
  /\ g = GhostInit

\* no merge, rebase or clone is asked for
NoCall ==
  /\ entry = "none"
  /\ callerHandler = FALSE
  /\ resolver = "default"
  /\ waitForBlocked = Undefined
  /\ cloneInput = NoInput
  /\ Quiescent

\* no forge detection is asked for
NoDetection ==
  /\ repoConfig = NoRepoConfig
  /\ dPc = "idle"
  /\ probes = <<>>
  /\ response = NoResponse
  /\ repoType = Pending

Init ==
  /\ entry \in Entries
  /\ callerHandler \in BOOLEAN
  /\ resolver \in Resolvers
  /\ waitForBlocked \in WaitTexts
  /\ cloneInput \in CloneInputs
  /\ (entry \in {"rebaseBranch", "clone"} => callerHandler = FALSE /\ waitForBlocked = Undefined)
  /\ (entry = "clone" => resolver = "default")
  /\ (entry # "clone" => cloneInput = NoInput)
  /\ Quiescent
  /\ NoDetection
  /\ NoRequest
  /\ NoFunction
  /\ NoAdapterCall
  /\ NoRebaseLoop

\* ------------------------------------------------------------------- clone
\* getUserConfig always answers a user configuration
getUserConfig == TRUE

CloneCall(input) ==
  /\ cloneInput' = input
  /\ clPc' = "clone"
  /\ clResult' = "none"
  /\ clErr' = NoError
  /\ localConfig' = {}

\* git.clone, git.cwd, git.branch, git.pull: the driver succeeds or fails
CloneRepository ==
  /\ clPc = "clone"
  /\ \/ /\ clPc' = "addGitConfig"
        /\ UNCHANGED <<clResult, clErr, g>>
        /\ dirExists' = IF rbPc = "cloning" THEN TRUE ELSE dirExists
     \/ /\ clPc' = "returned"
        /\ clResult' = "threw"
        /\ clErr' = GitDriverError
        /\ g' = [g EXCEPT !.driverFailed = TRUE]
        /\ \E d \in BOOLEAN : dirExists' = IF rbPc = "cloning" THEN d ELSE dirExists
  /\ UNCHANGED <<callVars, orchVars, cloneInput, localConfig,
                 rbPc, rbFrom, rbConfig, rbResult, rbErr, remote>>
  /\ UNCHANGED toolVars

\* the keys addGitConfig sets, or the error it raises, for a LocalGitConfig
addGitConfig(input) ==
  LET user == IF input.userConfig THEN {"user.email", "user.name"} ELSE {}
  IN  IF input.config = Absent
        THEN [threw |-> TRUE, keys |-> user]
      ELSE IF SSL_CA_INFO \in input.config
        THEN [threw |-> FALSE, keys |-> user \cup {SSL_CA_INFO}]
      ELSE [threw |-> FALSE, keys |-> user]

\* await addGitConfig(git, input); return git
CloneAddGitConfig ==
  /\ clPc = "addGitConfig"
  /\ LET r == addGitConfig(cloneInput)
     IN  /\ localConfig' = r.keys
         /\ clResult' = IF r.threw THEN "threw" ELSE "git"
         /\ clErr' = IF r.threw THEN TypeError ELSE NoError
  /\ clPc' = "returned"
  /\ UNCHANGED <<callVars, orchVars, rbVars, cloneInput, g>>
  /\ UNCHANGED toolVars

\* clone called directly settles the caller's promise
CloneSettles ==
  /\ pc = "cloning"
  /\ clPc = "returned"
  /\ pc' = "done"
  /\ outcome' = IF clResult = "threw" THEN Rejected(clErr) ELSE Resolved(clResult)
  /\ UNCHANGED <<callVars, pr, err, totalWaitTime, sleepFor, hPc, delay, mcResult, callerResult,
                 rbVars, clVars, g>>
  /\ UNCHANGED toolVars

\* ------------------------------------------------------------ rebaseBranch
\* rebaseBranch up to: await this.clone(repoDir, {userConfig: getUserConfig(...)})
RebaseCall(from, config) ==
  /\ rbPc' = "cloning"
  /\ rbFrom' = from
  /\ rbConfig' = config
  /\ rbResult' = "none"
  /\ rbErr' = NoError
  /\ remote' \in Remotes
  /\ dirExists' = FALSE
  /\ CloneCall(LocalGitConfig(getUserConfig, Absent))

GhostRebaseCall(h) ==
  [h EXCEPT !.rebased = TRUE, !.rebasesSinceAttempt = Sat(@), !.driverFailed = FALSE]

\* Object.assign({}, pr, {resolver: options.resolver})
RebaseConfigOf(p) ==
  [sourceBranch |-> p.sourceBranch, targetBranch |-> p.targetBranch, resolver |-> resolver]

\* The clone of rebaseBranch returns.  It is called without a config entry,
\* so addGitConfig always raises and the statements after the clone
\* (checkout, rebase, the status loop, the push) are never executed: the
\* control passes to the finally block.
RebaseCloneReturns ==
  /\ rbPc = "cloning"
  /\ clPc = "returned"
  /\ clResult = "threw"
  /\ rbErr' = clErr
  /\ rbResult' = "threw"
  /\ rbPc' = "finally"
  /\ clPc' = "idle"
  /\ clResult' = "none"
  /\ clErr' = NoError
  /\ localConfig' = {}
  /\ UNCHANGED <<callVars, orchVars, rbFrom, rbConfig, remote, dirExists, cloneInput, g>>
  /\ UNCHANGED toolVars

\* a rebaseBranch whose exit paths do not remove the workspace
RebaseFinallyKeepsDirectory ==
  /\ rbPc = "finally"
  /\ dirExists' = dirExists
  /\ rbPc' = "returned"
  /\ UNCHANGED <<callVars, orchVars, rbFrom, rbConfig, rbResult, rbErr, remote, clVars, g>>
  /\ UNCHANGED toolVars

\* finally { await promises.rm(repoDir, {recursive: true, force: true}) }
RebaseFinally ==
  /\ rbPc = "finally"
  /\ dirExists' = FALSE
  /\ rbPc' = "returned"
  /\ UNCHANGED <<callVars, orchVars, rbFrom, rbConfig, rbResult, rbErr, remote, clVars, g>>
  /\ UNCHANGED toolVars

\* the caller of rebaseBranch has taken its result: nothing of the call is left
RebaseForgotten ==
  /\ rbPc' = "idle"
  /\ rbFrom' = "none"
  /\ rbConfig' = NoConfig
  /\ rbResult' = "none"
  /\ rbErr' = NoError
  /\ remote' = "contains"
  /\ dirExists' = dirExists

\* rebaseBranch called directly settles the caller's promise
RebaseSettles ==
  /\ pc = "rebasing"
  /\ rbFrom = "direct"
  /\ rbPc = "returned"
  /\ pc' = "done"
  /\ outcome' = IF rbResult = "threw" THEN Rejected(rbErr) ELSE Resolved(rbResult)
  /\ UNCHANGED <<callVars, pr, err, totalWaitTime, sleepFor, hPc, delay, mcResult, callerResult,
                 rbVars, clVars, g>>
  /\ UNCHANGED toolVars

\* ----------------------------------------------------------- orchestrator
\* the caller invokes one of the operations
Call ==
  /\ pc = "start"
  /\ CASE entry = "rebaseBranch" ->
            /\ pc' = "rebasing"
            /\ RebaseCall("direct", [sourceBranch |-> SourceBranch, targetBranch |-> TargetBranch,
                                     resolver |-> resolver])
            /\ g' = GhostRebaseCall(g)
       [] entry = "clone" ->
            /\ pc' = "cloning"
            /\ CloneCall(cloneInput)
            /\ UNCHANGED <<rbVars, g>>
       [] OTHER ->
            /\ pc' = "fetch"
            /\ UNCHANGED <<rbVars, clVars, g>>
  /\ UNCHANGED <<callVars, pr, err, totalWaitTime, sleepFor, outcome, hPc, delay, mcResult,
                 callerResult>>
  /\ UNCHANGED toolVars

\* const pr = await this.getPullRequest(options)
GetPullRequest ==
  /\ pc = "fetch"
  /\ \/ \E s \in PullRequestStatus :
          /\ pr' = PullRequest(s)
          /\ pc' = "polled"
          /\ UNCHANGED <<err, g>>
     \/ /\ err' = NetworkError
        /\ pc' = "catch"
        /\ g' = [g EXCEPT !.errFrom = "poll"]
        /\ pr' = pr
  /\ UNCHANGED <<callVars, totalWaitTime, sleepFor, outcome, hPc, delay, mcResult, callerResult,
                 rbVars, clVars>>
  /\ UNCHANGED toolVars

\* if (pr.status === Conflicts) { await this.rebaseBranch(...); continue }
ConflictBranch ==
  /\ pc = "polled"
  /\ pr' = NoPullRequest
  /\ pr.status = "conflicts"
  /\ pc' = "rebasing"
  /\ RebaseCall("conflict", RebaseConfigOf(pr))
  /\ g' = GhostRebaseCall(g)
  /\ UNCHANGED <<callVars, err, totalWaitTime, sleepFor, outcome, hPc, delay, mcResult,
                 callerResult>>
  /\ UNCHANGED toolVars

\* the rebase of the conflict branch returns: continue, or the catch block
ConflictRebaseReturns ==
  /\ pc = "rebasing"
  /\ rbFrom = "conflict"
  /\ rbPc = "returned"
  /\ IF rbResult = "threw"
       THEN err' = rbErr /\ pc' = "catch" /\ g' = [g EXCEPT !.errFrom = "rebase"]
       ELSE /\ err' = err
            /\ pc' = "fetch"
            /\ g' = IF rbResult = "true" THEN [g EXCEPT !.pushedSinceFail = TRUE] ELSE g
  /\ RebaseForgotten
  /\ UNCHANGED <<callVars, pr, totalWaitTime, sleepFor, outcome, hPc, delay, mcResult,
                 callerResult, clVars>>
  /\ UNCHANGED toolVars

\* the budget test with <= in place of <
BlockedBudgetLeftInclusive(total, budget) == total <= budget

\* pr.status === Blocked && totalWaitTime < waitInMilliseconds
BlockedBudgetLeft(total, budget) == total < budget

\* Blocked with budget left: wait five minutes
BlockedWait ==
  /\ pc = "polled"
  /\ pr' = NoPullRequest
  /\ pr.status = "blocked"
  /\ BlockedBudgetLeft(totalWaitTime, waitInMilliseconds)
  /\ totalWaitTime' = totalWaitTime + minutesInMilliseconds(5)
  /\ sleepFor' = minutesInMilliseconds(5)
  /\ pc' = "sleep"
  /\ UNCHANGED <<callVars, err, outcome, hPc, delay, mcResult, callerResult,
                 rbVars, clVars, g>>
  /\ UNCHANGED toolVars

\* Blocked otherwise: throw new MergeBlockedForPullRequest(...)
BlockedThrow ==
  /\ pc = "polled"
  /\ pr' = NoPullRequest
  /\ pr.status = "blocked"
  /\ ~BlockedBudgetLeft(totalWaitTime, waitInMilliseconds)
  /\ err' = MergeBlockedForPullRequest
  /\ pc' = "catch"
  /\ g' = [g EXCEPT !.errFrom = "blocked"]
  /\ UNCHANGED <<callVars, totalWaitTime, sleepFor, outcome, hPc, delay, mcResult,
                 callerResult, rbVars, clVars>>
  /\ UNCHANGED toolVars

\* the test mergeConflictHandler makes on the error
MergeRelated(error) == isMergeError(error) \/ isMergeConflict(error)

\* const result = await this.mergePullRequestInternal(options); resolve(result)
MergeAttempt ==
  /\ pc = "polled"
  /\ pr' = NoPullRequest
  /\ pr.status \notin {"conflicts", "blocked"}
  /\ \/ \E m \in Messages :
          /\ outcome' = Resolved(m)
          /\ pc' = "done"
          /\ err' = err
          /\ g' = [g EXCEPT !.lastMessage = m, !.rebasesSinceAttempt = 0]
     \/ \E e \in MergeErrors :
          /\ err' = e
          /\ pc' = "catch"
          /\ outcome' = outcome
          /\ g' = IF MergeRelated(e)
                    THEN [g EXCEPT !.mergeFailed = TRUE, !.pushedSinceFail = FALSE,
                                   !.callerAccepted = FALSE, !.rebasesSinceAttempt = 0,
                                   !.errFrom = "merge"]
                    ELSE [g EXCEPT !.rebasesSinceAttempt = 0, !.errFrom = "merge"]
  /\ UNCHANGED <<callVars, totalWaitTime, sleepFor, hPc, delay, mcResult, callerResult,
                 rbVars, clVars>>
  /\ UNCHANGED toolVars

\* catch (err) { ... await retryHandler(err) : the evaluators are invoked
Catch ==
  /\ pc = "catch"
  /\ pc' = "handling"
  /\ hPc' = IF retryHandler \in {"mergeConflictHandler", "composite"} THEN "start" ELSE "off"
  /\ mcResult' = NoResult
  /\ callerResult' = NoResult
  /\ delay' = 0
  /\ g' = [g EXCEPT !.handlerPolled = FALSE]
  /\ UNCHANGED <<callVars, pr, err, totalWaitTime, sleepFor, outcome, rbVars, clVars>>
  /\ UNCHANGED toolVars

\* mergeConflictHandler up to its first await
MergeConflictHandler ==
  /\ pc = "handling"
  /\ hPc = "start"
  /\ IF isMergeError(err) \/ isMergeConflict(err)
       THEN /\ \E r \in RandomDelays : delay' = 1000 + r
            /\ hPc' = "fetch"
            /\ mcResult' = mcResult
       ELSE /\ mcResult' = RetryResult(FALSE, 0)
            /\ hPc' = "done"
            /\ delay' = delay
  /\ UNCHANGED <<callVars, pc, pr, err, totalWaitTime, sleepFor, outcome, callerResult,
                 rbVars, clVars, g>>
  /\ UNCHANGED toolVars

\* const pr = await this.getPullRequest(options); this.rebaseBranch(...)
HandlerGetPullRequest ==
  /\ pc = "handling"
  /\ hPc = "fetch"
  /\ \/ \E s \in PullRequestStatus :
          /\ hPc' = "rebasing"
          /\ RebaseCall("handler", RebaseConfigOf(PullRequest(s)))
          /\ g' = [GhostRebaseCall(g) EXCEPT !.handlerPolled = TRUE]
          /\ mcResult' = mcResult
     \/ /\ mcResult' = Threw
        /\ hPc' = "done"
        /\ UNCHANGED <<rbVars, clVars, g>>
  /\ UNCHANGED <<callVars, pc, pr, err, totalWaitTime, sleepFor, outcome, delay, callerResult>>
  /\ UNCHANGED toolVars

\* the retry flag mergeConflictHandler answers after its rebase returned
MergeConflictRetry(result) == result = "true"

\* const retry = await this.rebaseBranch(...); return {retry, delay}
HandlerRebaseReturns ==
  /\ pc = "handling"
  /\ hPc = "rebasing"
  /\ rbPc = "returned"
  /\ mcResult' = IF rbResult = "threw" THEN Threw
                 ELSE RetryResult(MergeConflictRetry(rbResult), delay)
  /\ hPc' = "done"
  /\ g' = IF rbResult = "true" THEN [g EXCEPT !.pushedSinceFail = TRUE] ELSE g
  /\ RebaseForgotten
  /\ UNCHANGED <<callVars, pc, pr, err, totalWaitTime, sleepFor, outcome, delay, callerResult,
                 clVars>>
  /\ UNCHANGED toolVars

\* the caller's retry evaluator answers
CallerRetryHandler ==
  /\ pc = "handling"
  /\ retryHandler \in {"caller", "composite"}
  /\ hPc \in {"off", "done"}
  /\ callerResult = NoResult
  /\ \E r \in CallerResults : callerResult' = r
  /\ UNCHANGED <<callVars, pc, pr, err, totalWaitTime, sleepFor, outcome, hPc, delay, mcResult,
                 rbVars, clVars, g>>
  /\ UNCHANGED toolVars

\* the value of await retryHandler(err)
HandlerResult ==
  CASE retryHandler = "noRetry" -> noRetry(err)
    [] retryHandler = "caller" -> callerResult
    [] retryHandler = "mergeConflictHandler" -> mcResult
    [] retryHandler = "composite" -> FirstRetry(<<mcResult, callerResult>>)
    [] OTHER -> RetryResult(FALSE, 0)

\* if (retry && delay) sleep; else if (!retry) reject(err); and loop
RetryDecision ==
  /\ pc = "handling"
  /\ hPc \in {"off", "done"}
  /\ retryHandler \in {"caller", "composite"} => callerResult # NoResult
  /\ LET result == HandlerResult
     IN  /\ IF result.kind = "threw"
              THEN pc' = "hung" /\ outcome' = outcome /\ sleepFor' = sleepFor /\ err' = err
            ELSE IF result.retry /\ result.delay # 0
              THEN pc' = "sleep" /\ outcome' = outcome /\ sleepFor' = result.delay
                   /\ err' = NoError
            ELSE IF ~result.retry
              THEN pc' = "done" /\ outcome' = Rejected(err) /\ sleepFor' = sleepFor
                   /\ err' = err
            ELSE pc' = "fetch" /\ outcome' = outcome /\ sleepFor' = sleepFor /\ err' = NoError
         /\ g' = IF callerResult.kind = "result" /\ callerResult.retry
                   THEN [g EXCEPT !.callerAccepted = TRUE, !.errFrom = "none",
                                  !.handlerPolled = FALSE]
                 ELSE IF result.kind = "result" /\ result.retry
                   THEN [g EXCEPT !.errFrom = "none", !.handlerPolled = FALSE]
                 ELSE g
  /\ hPc' = "off"
  /\ delay' = 0
  /\ mcResult' = NoResult
  /\ callerResult' = NoResult
  /\ UNCHANGED <<callVars, pr, totalWaitTime, rbVars, clVars>>
  /\ UNCHANGED toolVars

\* await sleep(...) ends and the loop starts over
Sleep ==
  /\ pc = "sleep"
  /\ pc' = "fetch"
  /\ sleepFor' = 0
  /\ UNCHANGED <<callVars, pr, err, totalWaitTime, outcome, hPc, delay, mcResult,
                 callerResult, rbVars, clVars, g>>
  /\ UNCHANGED toolVars

Next ==
  \/ Call
  \/ CloneRepository
  \/ CloneAddGitConfig
  \/ CloneSettles
  \/ RebaseCloneReturns
  \/ RebaseFinally
  \/ RebaseSettles
  \/ GetPullRequest
  \/ ConflictBranch
  \/ ConflictRebaseReturns
  \/ BlockedWait
  \/ BlockedThrow
  \/ MergeAttempt
  \/ Catch
  \/ MergeConflictHandler
  \/ HandlerGetPullRequest
  \/ HandlerRebaseReturns
  \/ CallerRetryHandler
  \/ RetryDecision
  \/ Sleep

Spec == Init /\ [][Next]_vars

\* the event loop keeps running the steps that are ready
FairSpec == Spec /\ WF_vars(Next)

\* --------------------------------------------------------- getGitRepoType
\* a host the detector does not have to probe decides at once
GitHubOnly(host) ==
  IF host = "github.com" THEN GitHost.github ELSE ""

FixedHostType(host) ==
  CASE host = "github.com" -> GitHost.github
    [] host = "bitbucket.org" -> GitHost.bitbucket
    [] host = "dev.azure.com" -> GitHost.azure
    [] OTHER -> ""

\* getGitRepoType up to the first probe
GetGitRepoType ==
  /\ dPc = "start"
  /\ IF FixedHostType(repoConfig.host) # ""
       THEN /\ repoType' = Resolved(RepoTypeResult(FixedHostType(repoConfig.host),
                                     IF repoConfig.host = "dev.azure.com"
                                       THEN updateAzureRepoConfig(repoConfig) ELSE repoConfig))
            /\ dPc' = "done"
       ELSE /\ dPc' = "loadCaCert"
            /\ UNCHANGED repoType
  /\ UNCHANGED <<mergeVars, reqVars, fnVars, adVars, loopVars, repoConfig, probes, response>>

\* hasHeader / hasBody: const cert = await loadCaCert(caCert), outside the try
LoadCaCert ==
  /\ dPc = "loadCaCert"
  /\ \/ /\ dPc' = "get"
        /\ UNCHANGED repoType
     \/ /\ repoConfig.caCert = "file"
        /\ repoType' = Rejected(ReadFileError)
        /\ dPc' = "done"
  /\ UNCHANGED <<mergeVars, reqVars, fnVars, adVars, loopVars, repoConfig, probes, response>>

\* hasHeader / hasBody: await applyCert(get(url), cert).auth(username, password)
Get ==
  /\ dPc = "get"
  /\ probes' = Append(probes, Probes[Len(probes) + 1])
  /\ \E r \in Responses : response' = Append(response, r)
  /\ dPc' = "answered"
  /\ UNCHANGED <<mergeVars, reqVars, fnVars, adVars, loopVars, repoConfig, repoType>>

\* the if around the probe: return builder(type), go on, or throw
ProbeAnswered ==
  /\ dPc = "answered"
  /\ LET n == Len(probes)
         found == IF n = 1 THEN hasHeader(response[n]) ELSE hasBody(response[n])
     IN  IF found
           THEN /\ repoType' = Resolved(RepoTypeResult(ProbeTypes[n], repoConfig))
                /\ dPc' = "done"
         ELSE IF n < Len(Probes)
           THEN /\ dPc' = "loadCaCert"
                /\ UNCHANGED repoType
         ELSE /\ repoType' = Rejected(UnidentifiedHostError)
              /\ dPc' = "done"
  /\ UNCHANGED <<mergeVars, reqVars, fnVars, adVars, loopVars, repoConfig, probes, response>>

DetectInit ==
  /\ NoCall
  /\ NoRequest
  /\ NoFunction
  /\ repoConfig \in AuthGitRepoConfigs
  /\ dPc = "start"
  /\ probes = <<>>
  /\ response = NoResponse
  /\ repoType = Pending
  /\ NoAdapterCall
  /\ NoRebaseLoop

DetectNext ==
  \/ GetGitRepoType
  \/ LoadCaCert
  \/ Get
  \/ ProbeAnswered

DetectSpec == DetectInit /\ [][DetectNext]_vars

\* ------------------------------------------------ exec and retryWithDelay
\* exec / a Gitea request is started
ForgeCall ==
  /\ kPc = "start"
  /\ kPc' = IF kernel = "exec" /\ rateLimit THEN "rateLimit" ELSE "call"
  /\ UNCHANGED <<mergeVars, detVars, fnVars, adVars, loopVars, kernel, retries, rateLimit, execHandler, failure,
                 retryResult, timerDelay, calls, reply>>

\* exec: if (rateLimit) await timer(1000)
RateLimitTimer ==
  /\ kPc = "rateLimit"
  /\ kPc' = "call"
  /\ UNCHANGED <<mergeVars, detVars, fnVars, adVars, loopVars, kernel, retries, rateLimit, execHandler, failure,
                 retryResult, timerDelay, calls, reply>>

\* retryWithDelay: f().then(resolve).catch(...); superagent: the request
CallForge ==
  /\ kPc = "call"
  /\ calls' = calls + 1
  /\ \/ /\ reply' = Resolved("reply")
        /\ kPc' = "done"
        /\ UNCHANGED failure
     \/ /\ \E f \in Failures : failure' = f
        /\ kPc' = "caught"
        /\ UNCHANGED reply
  /\ retryResult' = NoResult
  /\ UNCHANGED <<mergeVars, detVars, fnVars, adVars, loopVars, kernel, retries, rateLimit, execHandler, timerDelay>>

\* retryWithDelay's catch, with the handler exec built:
\* compositeRetryEvaluation([retryOnSecondaryRateLimit, retryHandler])
RetryWithDelayCatch ==
  /\ kPc = "caught"
  /\ kernel = "exec"
  /\ IF retries > 0
       THEN \E rand \in RandomUnits :
            \E c \in (IF execHandler THEN CallerResults ELSE {NoResult}) :
              LET own == retryOnSecondaryRateLimit(failure, rand)
                  result == IF compositeRetryEvaluation(TRUE, execHandler) = "composite"
                              THEN FirstRetry(<<own, c>>)
                            ELSE own
              IN  /\ retryResult' = result
                  /\ IF result.retry
                       THEN /\ timerDelay' = IF result.delay # 0 THEN result.delay ELSE 5000
                            /\ kPc' = "timer"
                            /\ UNCHANGED reply
                     ELSE /\ reply' = Rejected(failure.err)
                          /\ kPc' = "done"
                          /\ UNCHANGED timerDelay
     ELSE /\ reply' = Rejected(failure.err)
          /\ kPc' = "done"
          /\ UNCHANGED <<retryResult, timerDelay>>
  /\ UNCHANGED <<mergeVars, detVars, fnVars, adVars, loopVars, kernel, retries, rateLimit, execHandler, failure, calls>>

\* the timer, with the retries passed on undiminished
RetryTimerKeepsRetries ==
  /\ kPc = "timer"
  /\ timerDelay' = 0
  /\ kPc' = "call"
  /\ UNCHANGED <<mergeVars, detVars, fnVars, adVars, loopVars, kernel, retries, rateLimit,
                 execHandler, failure, retryResult, calls, reply>>

\* timer(delay).then(retryWithDelay.bind(null, f, name, retries - 1, retryHandler))
RetryTimer ==
  /\ kPc = "timer"
  /\ retries' = retries - 1
  /\ timerDelay' = 0
  /\ kPc' = "call"
  /\ UNCHANGED <<mergeVars, detVars, fnVars, adVars, loopVars, kernel, rateLimit, execHandler, failure, retryResult,
                 calls, reply>>

\* superagent's retry(10, retryCallback): the request is sent again while
\* the callback answers true and retries are left
SuperagentRetry ==
  /\ kPc = "caught"
  /\ kernel = "superagent"
  /\ retryResult' = RetryResult(defaultRetryCallback(failure), 0)
  /\ IF retries > 0 /\ defaultRetryCallback(failure)
       THEN /\ retries' = retries - 1
            /\ kPc' = "call"
            /\ UNCHANGED reply
     ELSE /\ reply' = Rejected(failure.err)
          /\ kPc' = "done"
          /\ UNCHANGED retries
  /\ UNCHANGED <<mergeVars, detVars, fnVars, adVars, loopVars, kernel, rateLimit, execHandler, failure, timerDelay, calls>>

KernelInit ==
  /\ NoCall
  /\ NoDetection
  /\ NoFunction
  /\ kernel \in Kernels
  /\ retries \in (0..MaxRetries) \cup {DefaultRetries}
  /\ rateLimit \in BOOLEAN
  /\ execHandler \in BOOLEAN
  /\ (kernel = "superagent" => retries = DefaultRetries /\ ~rateLimit /\ ~execHandler)
  /\ kPc = "start"
  /\ failure = NoFailure
  /\ retryResult = NoResult
  /\ timerDelay = 0
  /\ calls = 0
  /\ reply = Pending
  /\ NoAdapterCall
  /\ NoRebaseLoop

KernelNext ==
  \/ ForgeCall
  \/ RateLimitTimer
  \/ CallForge
  \/ RetryWithDelayCatch
  \/ RetryTimer
  \/ SuperagentRetry

KernelSpec == KernelInit /\ [][KernelNext]_vars

\* ------------------------------------------------- functions and mappings
\* timeTextToMilliseconds(waitText)
TimeTextToMilliseconds ==
  /\ fn = "timeTextToMilliseconds"
  /\ returned.state = "pending"
  /\ returned' = Resolved(timeTextToMilliseconds(arg))
  /\ UNCHANGED <<mergeVars, detVars, reqVars, adVars, loopVars, fn, arg>>

\* GithubCommon.getPullRequest: the forge answered res.data = arg
GithubGetPullRequest ==
  /\ fn = "Github.getPullRequest"
  /\ returned.state = "pending"
  /\ returned' = Resolved([pullNumber |-> arg.number,
                           status |-> mapPullRequestStatus(arg),
                           sourceBranch |-> arg.head,
                           targetBranch |-> arg.base])
  /\ UNCHANGED <<mergeVars, detVars, reqVars, adVars, loopVars, fn, arg>>

\* Bitbucket.getPullRequest: the forge answered res.body = arg; the object
\* built from it has no status entry
BitbucketGetPullRequest ==
  /\ fn = "Bitbucket.getPullRequest"
  /\ returned.state = "pending"
  /\ returned' = Resolved([pullNumber |-> arg.id,
                           status |-> "undefined",
                           sourceBranch |-> arg.source,
                           targetBranch |-> arg.destination])
  /\ UNCHANGED <<mergeVars, detVars, reqVars, adVars, loopVars, fn, arg>>

\* parseGitUrl(url)
ParseGitUrl ==
  /\ fn = "parseGitUrl"
  /\ returned.state = "pending"
  /\ returned' = parseGitUrl(arg)
  /\ UNCHANGED <<mergeVars, detVars, reqVars, adVars, loopVars, fn, arg>>

\* compositeRetryEvaluation(values)(error)
CompositeRetryEvaluation ==
  /\ fn = "compositeRetryEvaluation"
  /\ returned.state = "pending"
  /\ LET result == CompositeResult(arg)
     IN  returned' = IF result.kind = "threw" THEN Rejected(NetworkError) ELSE Resolved(result)
  /\ UNCHANGED <<mergeVars, detVars, reqVars, adVars, loopVars, fn, arg>>

Functions ==
  {"timeTextToMilliseconds", "Github.getPullRequest", "Bitbucket.getPullRequest", "parseGitUrl",
   "compositeRetryEvaluation"}

Arguments(f) ==
  CASE f = "timeTextToMilliseconds" -> TimeTexts
    [] f = "Github.getPullRequest" -> GithubPullRequests
    [] f = "Bitbucket.getPullRequest" -> BitbucketPullRequests
    [] f = "parseGitUrl" -> AcceptedUrls \cup OtherUrls
    [] f = "compositeRetryEvaluation" -> HandlerLists

FunctionInit ==
  /\ NoCall
  /\ NoDetection
  /\ NoRequest
  /\ fn \in Functions
  /\ arg \in Arguments(fn)
  /\ returned = Pending
  /\ NoAdapterCall
  /\ NoRebaseLoop

FunctionNext ==
  \/ TimeTextToMilliseconds
  \/ GithubGetPullRequest
  \/ BitbucketGetPullRequest
  \/ ParseGitUrl
  \/ CompositeRetryEvaluation

FunctionSpec == FunctionInit /\ [][FunctionNext]_vars

\* --------------------------------------------------------- adapter methods
\* createRepo: the request that creates the repository
CreateRepo ==
  /\ op = "createRepo"
  /\ aPc = "start"
  /\ \/ /\ forge' = [forge EXCEPT !.repository = TRUE,
                                  !.commits = IF InitialisesNatively(adapter)
                                                 /\ autoInit(adapter, options)
                                                THEN 1 ELSE 0]
        /\ aPc' = IF ~InitialisesNatively(adapter) /\ autoInit(adapter, options)
                    THEN "createFile" ELSE "return"
        /\ UNCHANGED aResult
     \/ /\ \E e \in {BadCredentials, NetworkError} : aResult' = Rejected(e)
        /\ aPc' = "done"
        /\ UNCHANGED forge
  /\ UNCHANGED <<mergeVars, detVars, reqVars, fnVars, loopVars, adapter, op, options,
                 adapterConfig, held, mr, polls>>

\* createRepo of the Azure and Bitbucket adapters:
\* await gitApi.createFile('README.md', ...).catch(err => log(err))
CreateFile ==
  /\ op = "createRepo"
  /\ aPc = "createFile"
  /\ \/ forge' = [forge EXCEPT !.commits = 1]
     \/ UNCHANGED forge
  /\ aPc' = "return"
  /\ UNCHANGED <<mergeVars, detVars, reqVars, fnVars, loopVars, adapter, op, options,
                 adapterConfig, held, mr, polls, aResult>>

\* createRepo: return gitApi
CreateRepoReturns ==
  /\ op = "createRepo"
  /\ aPc = "return"
  /\ aResult' = Resolved("repoApi")
  /\ aPc' = "done"
  /\ UNCHANGED <<mergeVars, detVars, reqVars, fnVars, loopVars, adapter, op, options,
                 adapterConfig, held, forge, mr, polls>>

\* const config = api.getConfig()
GetConfig ==
  /\ op = "getConfig"
  /\ aPc = "start"
  /\ held' = getConfig(adapter)
  /\ aPc' = "held"
  /\ UNCHANGED <<mergeVars, detVars, reqVars, fnVars, loopVars, adapter, op, options,
                 adapterConfig, forge, mr, polls, aResult>>

\* the caller assigns a field of the value it was handed; when that value is
\* this.config itself the adapter's configuration changes with it
CallerSetsField ==
  /\ op = "getConfig"
  /\ aPc = "held"
  /\ \E field \in {"owner", "repo"} :
       /\ held' = [held EXCEPT !.value[field] = "changed"]
       /\ adapterConfig' = IF held.alias THEN [adapterConfig EXCEPT ![field] = "changed"]
                           ELSE adapterConfig
  /\ aPc' = "changed"
  /\ UNCHANGED <<mergeVars, detVars, reqVars, fnVars, loopVars, adapter, op, options,
                 forge, mr, polls, aResult>>

\* a later use of the adapter: get repo() { return this.config.repo }
GetRepo ==
  /\ op = "getConfig"
  /\ aPc = "changed"
  /\ aResult' = Resolved(adapterConfig.repo)
  /\ aPc' = "done"
  /\ UNCHANGED <<mergeVars, detVars, reqVars, fnVars, loopVars, adapter, op, options,
                 adapterConfig, held, forge, mr, polls>>

\* Gitlab.mergePullRequestInternal: await this.getPullRequest({pullNumber})
\* in the loop, then if (status !== 'checking') break
GitlabGetPullRequest ==
  /\ op = "mergePullRequestInternal"
  /\ aPc = "poll"
  /\ polls' = polls + 1
  /\ \/ /\ \E s \in (IF polls + 1 < MaxPolls THEN MergeStatuses
                     ELSE MergeStatuses \ {"checking"}) :
           \E c \in BOOLEAN :
             /\ mr' = [mergeStatus |-> s, hasConflicts |-> c]
             /\ aPc' = IF s # "checking" THEN "check" ELSE "sleep"
        /\ UNCHANGED aResult
     \/ /\ aResult' = Rejected(NetworkError)
        /\ aPc' = "done"
        /\ UNCHANGED mr
  /\ UNCHANGED <<mergeVars, detVars, reqVars, fnVars, loopVars, adapter, op, options,
                 adapterConfig, held, forge>>

\* await sleep(3000)
GitlabSleep ==
  /\ op = "mergePullRequestInternal"
  /\ aPc = "sleep"
  /\ aPc' = "poll"
  /\ UNCHANGED <<mergeVars, detVars, reqVars, fnVars, loopVars, adapter, op, options,
                 adapterConfig, held, forge, mr, polls, aResult>>

\* the test after the loop with the conflicts flag alone
GitlabCheckConflictsOnly ==
  /\ op = "mergePullRequestInternal"
  /\ aPc = "check"
  /\ IF mr.hasConflicts
       THEN aResult' = Rejected(MergeConflict(PullNumber)) /\ aPc' = "done"
     ELSE aPc' = "merge" /\ UNCHANGED aResult
  /\ UNCHANGED <<mergeVars, detVars, reqVars, fnVars, loopVars, adapter, op, options,
                 adapterConfig, held, forge, mr, polls>>

\* if (status !== 'can_be_merged' && conflicts) throw new MergeConflict(pullNumber)
\* if (status !== 'can_be_merged') throw new Error('Pull request cannot be merged: ' + status)
GitlabCheck ==
  /\ op = "mergePullRequestInternal"
  /\ aPc = "check"
  /\ IF mr.mergeStatus # "can_be_merged" /\ mr.hasConflicts
       THEN aResult' = Rejected(MergeConflict(PullNumber)) /\ aPc' = "done"
     ELSE IF mr.mergeStatus # "can_be_merged"
       THEN aResult' = Rejected(CannotBeMerged) /\ aPc' = "done"
     ELSE aPc' = "merge" /\ UNCHANGED aResult
  /\ UNCHANGED <<mergeVars, detVars, reqVars, fnVars, loopVars, adapter, op, options,
                 adapterConfig, held, forge, mr, polls>>

\* put(`${this.getRepoUrl()}/merge_requests/${pullNumber}/merge`)
GitlabPutMerge ==
  /\ op = "mergePullRequestInternal"
  /\ aPc = "merge"
  /\ forge' = [forge EXCEPT !.merges = forge.merges + 1]
  /\ \/ aResult' = Resolved("success")
     \/ \E e \in {ResponseError(405, {}), NetworkError} : aResult' = Rejected(e)
  /\ aPc' = "done"
  /\ UNCHANGED <<mergeVars, detVars, reqVars, fnVars, loopVars, adapter, op, options,
                 adapterConfig, held, mr, polls>>

AdapterInit ==
  /\ NoCall
  /\ NoDetection
  /\ NoRequest
  /\ NoFunction
  /\ NoRebaseLoop
  /\ op \in Operations
  /\ adapter \in (IF op = "mergePullRequestInternal" THEN {"Gitlab"} ELSE Adapters)
  /\ options \in (IF op = "createRepo" THEN CreateRepoOptions ELSE {NoOptions})
  /\ aPc = IF op = "mergePullRequestInternal" THEN "poll" ELSE "start"
  /\ adapterConfig = TypedGitRepoConfig
  /\ held = NoHeld
  /\ forge = IF op = "createRepo" THEN NoRepository
             ELSE [repository |-> TRUE, commits |-> 1, merges |-> 0]
  /\ mr = NoMergeRequest
  /\ polls = 0
  /\ aResult = Pending

AdapterNext ==
  \/ CreateRepo
  \/ CreateFile
  \/ CreateRepoReturns
  \/ GetConfig
  \/ CallerSetsField
  \/ GetRepo
  \/ GitlabGetPullRequest
  \/ GitlabSleep
  \/ GitlabCheck
  \/ GitlabPutMerge

AdapterSpec == AdapterInit /\ [][AdapterNext]_vars

\* ---------------------------------- rebaseBranch on the working copy
\* The statements of rebaseBranch that follow the clone, for a clone that
\* returned a working copy.  The driver runs its tasks one at a time in the
\* order they were queued; a call of the driver queues its task and the
\* caller goes on when the driver has run it.

\* await git.checkoutBranch(config.sourceBranch, `origin/${config.sourceBranch}`)
CheckoutBranch ==
  /\ loopPc = "checkout"
  /\ \/ loopPc' = "rebase" /\ UNCHANGED completion
     \/ loopPc' = "finally" /\ completion' = "threw"
  /\ UNCHANGED <<mergeVars, detVars, reqVars, fnVars, adVars, loopResolver, git, lastStatus,
                 resolution, tasks, log, rebaseResult, loopResult, lh>>

\* try { await git.rebase([config.targetBranch]) } catch (err) { log }: the
\* source already holds the target or the rebase failed, the commits are
\* replayed, or the rebase stops on conflicted files
Rebase ==
  /\ loopPc = "rebase"
  /\ \/ UNCHANGED git
     \/ git' = [git EXCEPT !.ahead = 1, !.behind = 1]
     \/ \E k \in 0..(MaxCommits - 1) : \E c \in (SUBSET Files) \ {{}} :
        \E s \in SUBSET (Files \ c) :
          git' = [git EXCEPT !.rebasing = TRUE, !.todo = k, !.conflicted = c, !.staged = s,
                             !.ahead = 1, !.behind = 1]
  /\ tasks' = Append(tasks, Task("status", ""))
  /\ loopPc' = "status"
  /\ UNCHANGED <<mergeVars, detVars, reqVars, fnVars, adVars, loopResolver, lastStatus,
                 resolution, log, rebaseResult, completion, loopResult, lh>>

\* status = await git.status(); if (clean) break; then the resolver if files
\* are conflicted, else rebase --continue
ReadStatus ==
  /\ loopPc = "status"
  /\ tasks # <<>> /\ Head(tasks).cmd = "status"
  /\ \/ /\ lastStatus' = StatusResult(git)
        /\ IF isClean(lastStatus')
             THEN loopPc' = "check" /\ tasks' = Tail(tasks)
           ELSE IF lastStatus'.conflicted # {}
             THEN loopPc' = "resolve" /\ tasks' = Tail(tasks)
           ELSE loopPc' = "continue" /\ tasks' = Append(Tail(tasks), Task("continue", ""))
        /\ UNCHANGED completion
     \/ /\ loopPc' = "finally"
        /\ completion' = "threw"
        /\ tasks' = Tail(tasks)
        /\ UNCHANGED lastStatus
  /\ UNCHANGED <<mergeVars, detVars, reqVars, fnVars, adVars, loopResolver, git, resolution, log,
                 rebaseResult, loopResult, lh>>

\* await resolver(git, status.conflicted), the two throws that follow it and
\* resolvedConflicts.map(async file => { await git.add(file) ... }): every
\* callback queues its add; catch (error) { log } goes on to rebase --continue
Resolve ==
  /\ loopPc = "resolve"
  /\ \E answer \in ResolverAnswers(loopResolver, lastStatus.conflicted) : \E left \in Leaves :
       LET resolvedConflicts == answer.resolvedConflicts
           unresolvedConflicts ==
             { f \in lastStatus.conflicted :
                 \A i \in 1..Len(resolvedConflicts) : resolvedConflicts[i] # f }
           failed == answer.conflictErrors # {} \/ unresolvedConflicts # {}
       IN  /\ git' = [git EXCEPT
                        !.not_added = IF left = "untracked" THEN {"x"} ELSE @,
                        !.deleted = IF left = "deleted" THEN {"y"} ELSE @]
           /\ IF failed
                THEN /\ resolution' = [resolvedConflicts |-> resolvedConflicts,
                                       conflictErrors |-> answer.conflictErrors,
                                       awaiting |-> {}]
                     /\ tasks' = Append(tasks, Task("continue", ""))
                     /\ loopPc' = "continue"
                     /\ lh' = [lh EXCEPT !.resolverFailed = TRUE]
              ELSE /\ resolution' = [resolvedConflicts |-> resolvedConflicts,
                                     conflictErrors |-> {},
                                     awaiting |-> lastStatus.conflicted]
                   /\ tasks' = tasks \o [i \in 1..Len(resolvedConflicts) |->
                                           Task("add", resolvedConflicts[i])]
                   /\ loopPc' = "adding"
                   /\ lh' = [lh EXCEPT !.resolved = lastStatus.conflicted]
  /\ log' = <<>>
  /\ UNCHANGED <<mergeVars, detVars, reqVars, fnVars, adVars, loopResolver, lastStatus,
                 rebaseResult, completion, loopResult>>

\* the driver runs a queued git.add(file): the file is staged and its
\* callback goes on to await git.commit(`Resolves conflict with ${file}`);
\* or the add fails, and Promise.all, if still pending, rejects into the catch
GitAdd ==
  /\ loopPc # "done"
  /\ tasks # <<>> /\ Head(tasks).cmd = "add"
  /\ LET file == Head(tasks).file
     IN  \/ /\ git' = [git EXCEPT !.conflicted = @ \ {file}, !.staged = @ \cup {file}]
            /\ tasks' = Append(Tail(tasks), Task("commit", file))
            /\ log' = Append(log, Head(tasks))
            /\ UNCHANGED <<loopPc, resolution>>
         \/ /\ resolution' = [resolution EXCEPT !.awaiting = @ \ {file}]
            /\ IF loopPc = "adding"
                 THEN loopPc' = "continue"
                      /\ tasks' = Append(Tail(tasks), Task("continue", ""))
               ELSE loopPc' = loopPc /\ tasks' = Tail(tasks)
            /\ UNCHANGED <<git, log>>
  /\ UNCHANGED <<mergeVars, detVars, reqVars, fnVars, adVars, loopResolver, lastStatus,
                 rebaseResult, completion, loopResult, lh>>

\* the driver runs a queued git.commit: whatever is staged goes into the
\* commit; when the last callback has returned Promise.all resolves
GitCommit ==
  /\ loopPc # "done"
  /\ tasks # <<>> /\ Head(tasks).cmd = "commit"
  /\ LET file == Head(tasks).file
         awaiting == resolution.awaiting \ {file}
     IN  /\ resolution' = [resolution EXCEPT !.awaiting = awaiting]
         /\ \/ /\ git' = [git EXCEPT
                            !.commits = Append(@, [file |-> file, files |-> git.staged]),
                            !.staged = {}]
               /\ log' = Append(log, Head(tasks))
               /\ IF loopPc = "adding" /\ awaiting = {}
                    THEN loopPc' = "continue"
                         /\ tasks' = Append(Tail(tasks), Task("continue", ""))
                  ELSE loopPc' = loopPc /\ tasks' = Tail(tasks)
            \/ /\ IF loopPc = "adding"
                    THEN loopPc' = "continue"
                         /\ tasks' = Append(Tail(tasks), Task("continue", ""))
                  ELSE loopPc' = loopPc /\ tasks' = Tail(tasks)
               /\ UNCHANGED <<git, log>>
  /\ UNCHANGED <<mergeVars, detVars, reqVars, fnVars, adVars, loopResolver, lastStatus,
                 rebaseResult, completion, loopResult, lh>>

\* rebaseResult = await git.rebase(['--continue']).  The driver rejects only
\* when git exits with an error and wrote to its error stream; what git
\* wrote to its output is otherwise the value of the call, which is how the
\* 'No changes - did you forget to use 'git add'' message is read here.
\* With no file unmerged the stopped commit is done with, or git answers
\* 'No changes' and rebase --skip is called.  With files unmerged git
\* refuses: the call rejects, or it returns git's message ('You must edit
\* all merge conflicts ...') with nothing changed, and the loop goes round.
\* The call can also fail for any other reason.
RebaseContinue ==
  /\ loopPc = "continue"
  /\ tasks # <<>> /\ Head(tasks).cmd = "continue"
  /\ \/ /\ git.rebasing /\ git.conflicted = {}
        /\ \E w \in Advance(git) : git' = w
        /\ rebaseResult' = "ok"
        /\ loopPc' = "status"
        /\ tasks' = Append(Tail(tasks), Task("status", ""))
        /\ lh' = [lh EXCEPT !.continued = TRUE]
        /\ UNCHANGED completion
     \/ /\ git.rebasing /\ git.conflicted # {}
        /\ rebaseResult' = "You must edit all merge conflicts"
        /\ loopPc' = "status"
        /\ tasks' = Append(Tail(tasks), Task("status", ""))
        /\ UNCHANGED <<git, completion, lh>>
     \/ /\ git.rebasing /\ git.conflicted = {} /\ git.staged = {}
        /\ rebaseResult' = "No changes"
        /\ loopPc' = "skip"
        /\ tasks' = Append(Tail(tasks), Task("skip", ""))
        /\ UNCHANGED <<git, completion, lh>>
     \/ /\ loopPc' = "finally"
        /\ completion' = "threw"
        /\ tasks' = Tail(tasks)
        /\ UNCHANGED <<git, rebaseResult, lh>>
  /\ UNCHANGED <<mergeVars, detVars, reqVars, fnVars, adVars, loopResolver, lastStatus,
                 resolution, log, loopResult>>

\* await git.rebase(['--skip']): the stopped commit is dropped
RebaseSkip ==
  /\ loopPc = "skip"
  /\ tasks # <<>> /\ Head(tasks).cmd = "skip"
  /\ \/ /\ \E w \in Advance(git) : git' = w
        /\ loopPc' = "status"
        /\ tasks' = Append(Tail(tasks), Task("status", ""))
        /\ lh' = [lh EXCEPT !.continued = TRUE]
        /\ UNCHANGED completion
     \/ /\ loopPc' = "finally"
        /\ completion' = "threw"
        /\ tasks' = Tail(tasks)
        /\ UNCHANGED <<git, lh>>
  /\ UNCHANGED <<mergeVars, detVars, reqVars, fnVars, adVars, loopResolver, lastStatus,
                 resolution, log, rebaseResult, loopResult>>

\* if (status.ahead === 0 && status.behind === 0) return false; else the push
AheadOrBehind ==
  /\ loopPc = "check"
  /\ IF lastStatus.ahead = 0 /\ lastStatus.behind = 0
       THEN loopPc' = "finally" /\ completion' = "false" /\ UNCHANGED tasks
     ELSE loopPc' = "push" /\ tasks' = Append(tasks, Task("push", "")) /\ UNCHANGED completion
  /\ UNCHANGED <<mergeVars, detVars, reqVars, fnVars, adVars, loopResolver, git, lastStatus,
                 resolution, log, rebaseResult, loopResult, lh>>

\* await git.push('origin', config.sourceBranch, ['--force-with-lease'])
Push ==
  /\ loopPc = "push"
  /\ tasks # <<>> /\ Head(tasks).cmd = "push"
  /\ \/ git' = [git EXCEPT !.pushed = TRUE] /\ completion' = "true"
     \/ completion' = "threw" /\ UNCHANGED git
  /\ loopPc' = "finally"
  /\ tasks' = Tail(tasks)
  /\ UNCHANGED <<mergeVars, detVars, reqVars, fnVars, adVars, loopResolver, lastStatus,
                 resolution, log, rebaseResult, loopResult, lh>>

\* finally { await promises.rm(repoDir, ...) }, and the call settles
Finally ==
  /\ loopPc = "finally"
  /\ loopResult' = IF completion = "threw" THEN Rejected(GitDriverError)
                   ELSE Resolved(completion)
  /\ tasks' = <<>>
  /\ loopPc' = "done"
  /\ UNCHANGED <<mergeVars, detVars, reqVars, fnVars, adVars, loopResolver, git, lastStatus,
                 resolution, log, rebaseResult, completion, lh>>

LoopInit ==
  /\ NoCall
  /\ NoDetection
  /\ NoRequest
  /\ NoFunction
  /\ NoAdapterCall
  /\ loopPc = "checkout"
  /\ loopResolver \in Resolvers
  /\ git = WorkingCopy
  /\ lastStatus = NoStatus
  /\ resolution = NoResolution
  /\ tasks = <<>>
  /\ log = <<>>
  /\ rebaseResult = ""
  /\ completion = "none"
  /\ loopResult = Pending
  /\ lh = NoHistory

LoopNext ==
  \/ CheckoutBranch
  \/ Rebase
  \/ ReadStatus
  \/ Resolve
  \/ GitAdd
  \/ GitCommit
  \/ RebaseContinue
  \/ RebaseSkip
  \/ AheadOrBehind
  \/ Push
  \/ Finally

LoopSpec == LoopInit /\ [][LoopNext]_vars

LoopFairSpec == LoopSpec /\ WF_vars(LoopNext)

\* ------------------------------------------------------------------ claims
\* the merge-related errors as the claims list them: HTTP 409; HTTP 405 with
\* 'Base branch was modified' or 'Pull Request is not mergeable'; HTTP 422
\* with 'merge conflict between base and head'; a MergeConflict
ClaimMergeRelated(e) ==
  \/ e.kind = "ResponseError" /\ e.status = 409
  \/ e.kind = "ResponseError" /\ e.status = 405 /\ BaseModified \in e.text
  \/ e.kind = "ResponseError" /\ e.status = 405 /\ NotMergeable \in e.text
  \/ e.kind = "ResponseError" /\ e.status = 422 /\ ConflictBaseHead \in e.text
  \/ e.kind = "MergeConflict"

\* the loop is about to call mergePullRequestInternal
AboutToMerge == pc = "polled" /\ pr.status \notin {"conflicts", "blocked"}

\* a rebaseBranch call has run to its end without a failure of the git driver
RebaseEnded == rbPc = "returned" /\ ~g.driverFailed

CallerAccepts == callerResult.kind = "result" /\ callerResult.retry

C2_RebaseWaitLoop ==
  (entry = "updateAndMergePullRequest" /\ pc = "handling" /\ hPc = "done"
     /\ g.errFrom = "merge" /\ ClaimMergeRelated(err) /\ g.handlerPolled /\ ~g.driverFailed) =>
       /\ g.rebasesSinceAttempt = 1
       /\ mcResult.kind = "result"
       /\ mcResult.retry
       /\ mcResult.delay \in 1000..5999

\* C3 as stated: once an attempt failed with a merge-related error,
\* mergePullRequestInternal is called again only after a rebaseBranch that
\* pushed.
C3_PushBeforeNextAttempt ==
  (AboutToMerge /\ g.mergeFailed) => g.pushedSinceFail

\* C3 as amended: once an attempt failed with a merge-related error,
\* mergePullRequestInternal is called again only after a rebaseBranch that
\* pushed, or after the caller's retry evaluator accepted an error.
C3_PushOrCallerBeforeNextAttempt ==
  (AboutToMerge /\ g.mergeFailed) => (g.pushedSinceFail \/ g.callerAccepted)

C3_Witness ==
  /\ entry = "updateAndMergePullRequest"
  /\ AboutToMerge
  /\ g.mergeFailed
  /\ g.callerAccepted

BlockedPolled == pc = "polled" /\ pr.status = "blocked"

C5_CallSettles ==
  (entry = "updateAndMergePullRequest") => <>(outcome.state # "pending")

\* C6: mergePullRequest called directly never invokes rebaseBranch.
C6_SingleShotNeverRebases ==
  (entry = "mergePullRequest") => ~g.rebased

\* C7: in updateAndMergePullRequest an error of the merge attempt that is
\* not merge-related and that the caller's evaluator does not accept rejects
\* the call with that error; no pull request is read and no rebase is run
\* for it, and nothing follows the rejection.
C7_OtherErrorsSurface ==
  /\ [](outcome.state = "rejected" => pc = "done" /\ rbPc \in {"idle", "returned"})
  /\ [][ (entry = "updateAndMergePullRequest" /\ pc = "handling" /\ g.errFrom = "merge"
            /\ ~ClaimMergeRelated(err)) =>
           /\ hPc' \notin {"fetch", "rebasing"}
           /\ rbPc' = "idle"
           /\ g'.rebasesSinceAttempt = 0
           /\ (pc' # "handling" /\ ~CallerAccepts =>
                 pc' = "done" /\ outcome' = Rejected(err)) ]_vars

C7_Witness ==
  /\ entry = "updateAndMergePullRequest"
  /\ pc = "done"
  /\ outcome = Rejected(ResponseError(405, {}))
  /\ g.errFrom = "merge"
  /\ ~g.rebased

\* C8: with conflicts present, a resolver that reports conflictErrors makes
\* rebaseBranch fail with ConflictResolutionFailed, and one that resolves
\* fewer files than are conflicted (the default resolver included) makes it
\* fail with UnresolvedConflicts.
C8_ResolverFailuresSurface ==
  (RebaseEnded /\ remote = "conflicts") =>
     /\ (resolver = "reportsErrors" => rbResult = "threw" /\ rbErr = ConflictErrors)
     /\ (resolver \in {"default", "resolvesSome"} =>
           rbResult = "threw" /\ rbErr = UnresolvedConflictsError)

\* C9: when the resolver resolves every conflicted file and reports no
\* error, rebaseBranch pushes the source branch and returns true.
C9_ResolvedRebaseReturnsTrue ==
  (RebaseEnded /\ remote = "conflicts" /\ resolver = "resolvesAll") => rbResult = "true"

\* C10: when the source branch already contains the target, rebaseBranch
\* returns false (and pushes nothing).
C10_UpToDateReturnsFalse ==
  (RebaseEnded /\ remote = "contains") => rbResult = "false"

ProbeOrder ==
  << <<"api/v3", "GHE">>, <<"api/v4/projects", "Gitlab">>,
     <<"api/v1/settings/api", "Gitea">>, <<"api/v1/users/{username}", "Gogs">> >>

\* the i-th probe succeeded: a 2xx response with the GHE header (first
\* probe) or with a non-empty body (the others)
ProbeSucceeded(i) ==
  /\ i <= Len(response)
  /\ response[i].outcome = "ok"
  /\ IF i = 1 THEN response[i].header ELSE response[i].body = "nonEmpty"

\* C12: for a host that is none of the fixed hosts the probes are issued in
\* the order api/v3, api/v4/projects, api/v1/settings/api,
\* api/v1/users/{username}; a probe is issued only if every earlier probe
\* failed, a failed probe is not fatal, and the first probe that succeeds
\* decides the forge kind with no later probe issued.
C12_ProbeOrder ==
  repoConfig.host \notin {"github.com", "bitbucket.org", "dev.azure.com"} =>
    /\ Len(probes) <= 4
    /\ \A i \in 1..Len(probes) :
         /\ probes[i] = ProbeOrder[i][1]
         /\ \A j \in 1..(i - 1) : ~ProbeSucceeded(j)
    /\ \A i \in 1..Len(response) :
         (ProbeSucceeded(i) /\ dPc # "answered") =>
            /\ Len(probes) = i
            /\ dPc = "done"
            /\ repoType.state = "resolved"
            /\ repoType.value.type = ProbeOrder[i][2]
    /\ (repoType.state = "rejected" /\ repoType.error # ReadFileError) =>
          Len(response) = 4 /\ \A i \in 1..4 : ~ProbeSucceeded(i)

\* three probes failed (a request error, a non-2xx status, an empty body)
\* and the fourth decided
C12_Witness ==
  /\ repoConfig.host = "example.com"
  /\ dPc = "done"
  /\ Len(probes) = 4
  /\ response[1].outcome = "error"
  /\ response[2].outcome = "non2xx"
  /\ response[3].outcome = "ok"
  /\ repoType.state = "resolved"
  /\ repoType.value.type = "Gogs"

\* C13: for the fixed hosts the detector answers without issuing a probe:
\* github.com gives github, bitbucket.org gives bitbucket, dev.azure.com
\* gives azure.
C13_FixedHosts ==
  /\ repoConfig.host \in {"github.com", "bitbucket.org", "dev.azure.com"} => probes = <<>>
  /\ dPc = "done" =>
       /\ repoConfig.host = "github.com" =>
            repoType.state = "resolved" /\ repoType.value.type = "Github"
       /\ repoConfig.host = "bitbucket.org" =>
            repoType.state = "resolved" /\ repoType.value.type = "Bitbucket"
       /\ repoConfig.host = "dev.azure.com" =>
            repoType.state = "resolved" /\ repoType.value.type = "Azure DevOps"

C13_Witness ==
  /\ repoConfig.host = "bitbucket.org"
  /\ dPc = "done"
  /\ probes = <<>>
  /\ repoType.state = "resolved"

\* C14: when the host is not a fixed host and all four probes fail, the
\* detection fails with an error of kind InvalidGitUrl.
C14_ExhaustedProbesInvalidGitUrl ==
  (dPc = "done" /\ Len(response) = 4 /\ \A i \in 1..4 : ~ProbeSucceeded(i)) =>
     repoType.state = "rejected" /\ repoType.error.kind = "InvalidGitUrl"

\* the last failure carries a Retry-After header, whatever the case of its name
CarriesRetryAfter ==
  \E h \in failure.header : h[1] \in {"Retry-After", "retry-after"}

RetryAfterSeconds ==
  (CHOOSE h \in failure.header : h[1] \in {"Retry-After", "retry-after"})[2]

\* C15: when a call wrapped by exec fails with a 403 whose response body
\* matches /secondary rate limit/i, exec waits Retry-After seconds if the
\* response carries Retry-After, else 30 + uniform(0,20) seconds, and then
\* repeats the call.
C15_SecondaryRateLimitWait ==
  ( /\ kernel = "exec"
    /\ ~execHandler
    /\ retryResult # NoResult
    /\ isSecondaryRateLimitErrorIgnoreCase(failure.err) ) =>
      /\ retryResult.retry
      /\ kPc = "timer" =>
           IF CarriesRetryAfter
             THEN timerDelay = RetryAfterSeconds * 1000
           ELSE timerDelay \in 30000..50000

\* the statuses the claim C16 lists as retried
C16_RetryableSet == {405, 408, 413, 429, 500, 502, 503, 504, 521, 522, 524}

\* C16: a failed forge request with a status of the retryable set is
\* retried, one with 404 is not, one with 403 is retried iff its response
\* has the secondary-rate-limit phrase.
C16_RetryClassification ==
  ( /\ retryResult # NoResult
    /\ ~execHandler
    /\ isResponseError(failure.err) ) =>
      /\ failure.err.status \in C16_RetryableSet => retryResult.retry
      /\ failure.err.status = 404 => ~retryResult.retry
      /\ (failure.err.status = 403 /\ failure.err.text = {}) => ~retryResult.retry
      /\ (failure.err.status = 403 /\ SecondaryRateLimit \in failure.err.text) => retryResult.retry

\* the number a run of digits text[i..j] reads as
RECURSIVE C17_Number(_, _, _)
C17_Number(text, i, j) ==
  IF j < i THEN 0 ELSE C17_Number(text, i, j - 1) * 10 + DigitValue(text[j])

\* the <digits><h|m|s> tokens of a text, as <<first digit, unit position>>
C17_Tokens(text) ==
  { t \in (1..Len(text)) \X (1..Len(text)) :
      /\ t[1] < t[2]
      /\ text[t[2]] \in {"h", "m", "s"}
      /\ \A k \in t[1]..(t[2] - 1) : text[k] \in Digits
      /\ (t[1] = 1 \/ text[t[1] - 1] \notin Digits) }

C17_Millis(text, t) ==
  C17_Number(text, t[1], t[2] - 1) *
    (CASE text[t[2]] = "h" -> 3600000 [] text[t[2]] = "m" -> 60000 [] text[t[2]] = "s" -> 1000)

RECURSIVE C17_Sum(_, _)
C17_Sum(text, tokens) ==
  IF tokens = {} THEN 0
  ELSE LET t == CHOOSE x \in tokens : TRUE
       IN  C17_Millis(text, t) + C17_Sum(text, tokens \ {t})

\* C17: timeTextToMilliseconds returns the sum over the <digits><h|m|s>
\* tokens of the text of digits x 3,600,000 / 60,000 / 1,000 ms, adjacent
\* or separated by spaces, and 0 for undefined, the empty string and
\* unknown text; with the values of the documented examples.
C17_TimeTextSum ==
  (fn = "timeTextToMilliseconds" /\ returned.state # "pending") =>
    /\ returned.state = "resolved"
    /\ returned.value = IF arg = Undefined THEN 0 ELSE C17_Sum(arg, C17_Tokens(arg))
    /\ arg = <<"1", "h">> => returned.value = 3600000
    /\ arg = <<"1", "0", "m">> => returned.value = 600000
    /\ arg = <<"3", "0", "s">> => returned.value = 30000
    /\ arg = <<"8", "h", "8", "m", "8", "s">> => returned.value = 29288000
    /\ arg = <<"8", "h", " ", "8", "m", " ", "8", "s">> => returned.value = 29288000
    /\ arg = <<"1", "h", " ", "3", "0", "m">> => returned.value = 5400000
    /\ arg \in {Undefined, <<>>, <<"t", "e", "s", "t", " ", "v", "a", "l", "u", "e">>} =>
         returned.value = 0

C17_Witness ==
  /\ fn = "timeTextToMilliseconds"
  /\ arg = <<"8", "h", " ", "8", "m", " ", "8", "s">>
  /\ returned.state = "resolved"
  /\ returned.value = 29288000

\* C18: the GitHub adapter maps an open pull request to Conflicts when
\* mergeable_state is 'dirty', to Blocked when it is 'blocked' and to Active
\* otherwise; a closed one to Completed when merged and to Abandoned otherwise.
C18_GithubStatusMapping ==
  (fn = "Github.getPullRequest" /\ returned.state # "pending") =>
    /\ returned.state = "resolved"
    /\ (arg.state = "open" /\ arg.mergeable_state = "dirty") => returned.value.status = "conflicts"
    /\ (arg.state = "open" /\ arg.mergeable_state = "blocked") => returned.value.status = "blocked"
    /\ (arg.state = "open" /\ arg.mergeable_state \notin {"dirty", "blocked"}) =>
         returned.value.status = "active"
    /\ (arg.state = "closed" /\ arg.merged) => returned.value.status = "completed"
    /\ (arg.state = "closed" /\ ~arg.merged) => returned.value.status = "abandoned"

C18_Witness ==
  /\ fn = "Github.getPullRequest"
  /\ arg.state = "open"
  /\ arg.mergeable_state = "behind"
  /\ returned.state = "resolved"
  /\ returned.value.status = "active"

\* C19: the PullRequest returned by the Bitbucket adapter carries a
\* normalized status: OPEN gives Active, MERGED gives Completed, SUPERSEDED
\* and DECLINED give Abandoned.
C19_BitbucketStatusMapping ==
  (fn = "Bitbucket.getPullRequest" /\ returned.state # "pending") =>
    /\ returned.state = "resolved"
    /\ arg.state = "OPEN" => returned.value.status = "active"
    /\ arg.state = "MERGED" => returned.value.status = "completed"
    /\ arg.state \in {"SUPERSEDED", "DECLINED"} => returned.value.status = "abandoned"

\* a URL without its embedded credentials and without the .git of its repo
C20_WithoutCredentialsAndGit(url) ==
  LET at == FirstIndex(url, "@")
      open == IF at = 0 THEN url ELSE SubSeq(url, 1, 2) \o After(url, at)
  IN  SelectSeq(open, LAMBDA t : t # ".git")

C20_AsHttps(url) ==
  IF url[1] = "git@"
    THEN <<"https", "://">> \o [i \in 1..(Len(url) - 1) |->
                                  IF url[i + 1] = ":" THEN "/" ELSE url[i + 1]]
  ELSE url

\* a URL without the fragment that follows its repo
C20_WithoutRepoFragment(url) ==
  LET hash == FirstIndex(url, "#")
      slashes == { i \in 1..Len(url) : url[i] = "/" /\ (hash = 0 \/ i < hash) }
  IN  IF hash # 0 /\ Cardinality(slashes) >= 2 THEN Before(url, hash) ELSE url

C21_InitialCommitBeforeReturn ==
  (op = "createRepo" /\ options.autoInit = "true" /\ aResult.state = "resolved")
    => forge.commits > 0

\* C22: changing a field of the value getConfig returned never changes the
\* configuration the adapter uses in later operations, for every adapter.
C22_GetConfigDefensiveCopy ==
  [][op = "getConfig" => adapterConfig' = adapterConfig]_vars

\* C25: the GitLab adapter polls the merge request until merge_status is no
\* longer 'checking' before it attempts the merge, sends the merge only if
\* the last polled merge_status is 'can_be_merged', and otherwise sends no
\* merge and fails, with MergeConflict when the merge request has conflicts.
C25_GitlabMergesWhenCanBeMerged ==
  op = "mergePullRequestInternal" =>
    /\ forge.merges <= 1
    /\ (aPc = "merge" \/ forge.merges > 0) => (polls > 0 /\ mr.mergeStatus = "can_be_merged")
    /\ (aPc = "done" /\ mr.mergeStatus \notin {"", "checking", "can_be_merged"}) =>
         /\ forge.merges = 0
         /\ aResult.state = "rejected"
         /\ (mr.hasConflicts => aResult.error = MergeConflict(PullNumber))

\* the merge was sent after the forge was still checking at the first poll
C25_Witness ==
  /\ op = "mergePullRequestInternal"
  /\ polls > 1
  /\ forge.merges = 1
  /\ aResult.state = "resolved"

\* a merge request with conflicts was refused without a merge being sent
C25_WitnessConflict ==
  /\ op = "mergePullRequestInternal"
  /\ polls > 1
  /\ mr.mergeStatus = "cannot_be_merged"
  /\ aResult.state = "rejected"
  /\ aResult.error = MergeConflict(PullNumber)

\* the calls made, the retries left and the call about to be made: N + 1
\* when retryWithDelay is started with retries = N
C23_Budget ==
  calls + retries + (IF kPc \in {"start", "rateLimit", "call"} THEN 1 ELSE 0)

\* C23: retryWithDelay invokes the operation at most N + 1 times for
\* retries = N (default 10): every call after the first uses up one of the
\* N retries, and once none is left a further failure is rejected to the
\* caller with that last error without the retry handler being consulted.
C23_RetriesBounded ==
  [][kernel = "exec" =>
       /\ C23_Budget' = C23_Budget
       /\ retries' >= 0
       /\ calls' <= C23_Budget'
       /\ (kPc = "caught" /\ retries = 0) =>
            /\ kPc' = "done"
            /\ reply' = Rejected(failure.err)
            /\ retryResult' = NoResult
            /\ calls' = calls]_vars

\* the operation failed three times with two retries, and the last error
\* was handed to the caller
C23_Witness ==
  /\ kernel = "exec"
  /\ calls = 3
  /\ retries = 0
  /\ kPc = "done"
  /\ reply.state = "rejected"
  /\ retryResult = NoResult

\* the members of a handler list that are defined
C24_Members == SelectSeq(arg, LAMBDA v : v # NoResult)

\* the places of the members that answer retry: true
C24_Accepting ==
  { i \in 1..Len(C24_Members) : C24_Members[i].kind = "result" /\ C24_Members[i].retry }

\* C24: the handler built by compositeRetryEvaluation is the union of its
\* members: it answers retry: true iff some member does, its answer (delay
\* included) is then that of the first such member in list order, and
\* otherwise it answers retry: false.
C24_CompositeIsUnion ==
  (fn = "compositeRetryEvaluation" /\ returned.state # "pending") =>
    /\ returned.state = "resolved"
    /\ IF C24_Accepting # {}
         THEN returned.value =
                C24_Members[CHOOSE i \in C24_Accepting : \A j \in C24_Accepting : i <= j]
       ELSE returned.value.kind = "result" /\ ~returned.value.retry

\* C26: when the work done while evaluating a failed merge attempt (the
\* pull request read again, or the rebaseBranch run by the merge-conflict
\* handler) itself fails, the promise updateAndMergePullRequest returned is
\* rejected with an error rather than left pending forever.
C26_HandlerFailureRejects ==
  (entry = "updateAndMergePullRequest" /\ mcResult = Threw) ~> (outcome.state = "rejected")

\* C27: clone completes without raising when the LocalGitConfig it is given
\* has no config entry, as in the call made by rebaseBranch: user.email and
\* user.name are set in the clone, and http.sslCAInfo is set only when that
\* key is present in config.
C27_CloneWithoutConfigEntry ==
  (clPc = "returned" /\ cloneInput.config = Absent /\ clErr # GitDriverError) =>
    /\ clResult = "git"
    /\ cloneInput.userConfig => {"user.email", "user.name"} \subseteq localConfig
    /\ SSL_CA_INFO \notin localConfig

C29_Resolved == { resolution.resolvedConflicts[i] : i \in 1..Len(resolution.resolvedConflicts) }

====
